---------------------------- MODULE Spec2Model ----------------------------
(***************************************************************************)
(* Model of src/security/prevention/shamir_sharing.py: the class           *)
(* ShamirSecretSharing (constructor, split_secret, reconstruct_secret and  *)
(* their helpers) together with a caller that constructs one scheme and    *)
(* then calls it.                                                          *)
(*                                                                         *)
(* No method of the class assigns to self after __init__ and none keeps    *)
(* anything between calls, so the outcome of a call is a function of the   *)
(* scheme and of the call's arguments and random draws.  The caller of the *)
(* model therefore makes one of two runs on its scheme: it splits a secret *)
(* and reconstructs from shares picked among those returned, or it         *)
(* reconstructs from shares it made up.  Further runs repeat a call with   *)
(* the same arguments (a second split_secret) or call verify_share on a    *)
(* share of the split.                                                     *)
(*                                                                         *)
(* For calls made from several threads on one scheme object the calls are  *)
(* taken apart into steps, each thread with a frame of its own arguments   *)
(* and locals, and the steps of the threads interleave.                    *)
(*                                                                         *)
(* For the caller that passes one list of shares to reconstruct_secret     *)
(* again and again, lists and shares are objects held by address, as in    *)
(* Python: the parameter of the call and the caller's name hold the same   *)
(* list, and the call is taken statement by statement.                     *)
(*                                                                         *)
(* The scheme object holds threshold, total_shares and prime.  Everything  *)
(* else is the latest call seen from the caller: its arguments, the        *)
(* random numbers drawn in it, and its outcome.  An outcome is a record    *)
(* kind = "ok" with a value, or kind = "raise" with the exception.  The    *)
(* code raises ValueError at every raise statement; the model names each   *)
(* raise by the failure of the taxonomy it stands for:                     *)
(*   line  39  ValueError("Threshold cannot exceed ...")  InvalidConfiguration *)
(*   line  93  ValueError("Secret too large for prime")   SecretTooLarge   *)
(*   line 102  ValueError("Need n node IDs")              InvalidConfiguration *)
(*   line 127  ValueError("Need at least k shares")       InsufficientShares *)
(*   line 143  pow(d, -1, p): ValueError("base is not invertible ...")     *)
(*                                                        NotInvertible    *)
(*   line 162  int.to_bytes: OverflowError / ValueError   OverflowError /  *)
(*                                                        NegativeLength   *)
(* The integers of the code are unbounded; the moduli of the model are     *)
(* small, so no intermediate value leaves TLC's integers.  The default     *)
(* modulus 2^521 - 1 (line 44) is outside the model: a modulus is always   *)
(* passed.                                                                 *)
(*                                                                         *)
(* Two more classes of src/security/prevention are modelled, each with     *)
(* state and a caller of its own: KeyRevocationSystem (key_revocation.py), *)
(* whose revoke_key is one step for its caller and, for the question of    *)
(* its termination, a stack of activations taking a step at a time; and    *)
(* EphemeralKeyManager (ephemeral_keys.py), with a clock that the caller   *)
(* lets advance between calls.  The three classes share nothing; the       *)
(* actions of one leave the variables of the others alone.                 *)
(***************************************************************************)
EXTENDS Integers, Sequences, FiniteSets, TLC

\* ----------------------------------------------------------------- bounds
\* total_shares ranges over 1..MaxShares, threshold over -1..MaxShares+1
MaxShares == 3
\* prime ranges over 2..MaxModulus (composite moduli included: the
\* constructor does not test primality)
MaxModulus == 5
\* a secret has 0..MaxSecretLen bytes, each byte in 0..MaxByte
MaxSecretLen == 2
MaxByte == 5
\* reconstruct_secret is passed 0..MaxSupplied shares
MaxSupplied == 3
\* reconstruct_secret is called again on the same list up to MaxRepeats times
MaxRepeats == 2
\* the threads that call one scheme object at the same time
MaxThreads == 2
\* link_keys is called up to MaxLinks times
MaxLinks == 3

\* ------------------------------------------------------------------ state
VARIABLES
    ctor,           \* "pending", "ok", or the failure of __init__
    threshold,      \* self.threshold
    total_shares,   \* self.total_shares
    prime,          \* self.prime
    last,           \* the latest call: "none", "split", "reconstruct"
    secret,         \* split_secret's argument secret (a sequence of bytes)
    labelled,       \* whether split_secret was passed node_ids (not None)
    node_ids,       \* split_secret's argument node_ids, <<>> when None
    coefficients,   \* the polynomial generated in the latest split_secret
    split_out,      \* outcome of the latest split_secret
    supplied,       \* reconstruct_secret's argument shares
    secret_length,  \* reconstruct_secret's argument secret_length
    recon_out,      \* outcome of the latest reconstruct_secret
    again_coefficients, \* the polynomial generated in a second split_secret
    again_out,      \* outcome of a second split_secret, same arguments
    verify_pos,     \* position, in the shares held, of verify_share's argument
    verify_arg,     \* verify_share's argument share
    verify_out,     \* outcome of the latest verify_share
    repeats,        \* how often reconstruct_secret was called again on the
                    \* same list
    frames,         \* for each thread sharing the scheme: the arguments,
                    \* locals, position and outcome of the call it runs
    py_heap,        \* the list and SecretShare objects the caller holds and
                    \* those a running call makes, by address
    py_held,        \* the address of the list the caller passes, 0 for none
    py_held_heap,   \* py_heap as it was when the caller made that list
    py_frame,       \* the locals and position of the reconstruct_secret
                    \* call that runs on py_held
    krs_active_keys,        \* KeyRevocationSystem: self.active_keys
    krs_revoked_keys,       \* self.revoked_keys, the record of each key
    krs_key_relationships,  \* self.key_relationships, the list of each key
    krs_call,               \* the latest call of the system, with its
                            \* arguments when it is a revoke_key
    krs_out,                \* what the latest revoke_key returned
    krs_stack,              \* the revoke_key calls in progress, outermost
                            \* first: arguments, locals and position of each
    ekm_rotation_hours,     \* EphemeralKeyManager: self.rotation_hours, -1
                            \* before the manager is made
    ekm_keys,               \* the EphemeralKey objects made, in order
    ekm_active_keys,        \* self.active_keys: key id and object, in the
                            \* order of the dict
    ekm_rotation_log,       \* self.rotation_log
    ekm_now,                \* what time.time() read last, and reads next
                            \* unless the clock moves
    ekm_call,               \* the call of the manager that has just returned
                            \* and its key id
    ekm_out                 \* what the latest call returned

vars == <<ctor, threshold, total_shares, prime, last, secret, labelled,
          node_ids, coefficients, split_out, supplied, secret_length, recon_out,
          again_coefficients, again_out, verify_pos, verify_arg, verify_out,
          repeats, frames, py_heap, py_held, py_held_heap, py_frame,
          krs_active_keys, krs_revoked_keys, krs_key_relationships,
          krs_call, krs_out, krs_stack,
          ekm_rotation_hours, ekm_keys, ekm_active_keys, ekm_rotation_log,
          ekm_now, ekm_call, ekm_out>>

scheme_vars == <<ctor, threshold, total_shares, prime>>
split_vars == <<secret, labelled, node_ids, coefficients, split_out>>
recon_vars == <<supplied, secret_length, recon_out>>
again_vars == <<again_coefficients, again_out>>
verify_vars == <<verify_pos, verify_arg, verify_out>>
py_vars == <<py_heap, py_held, py_held_heap, py_frame>>
shamir_vars == <<scheme_vars, last, split_vars, recon_vars, again_vars,
                 verify_vars, repeats, frames, py_vars>>
krs_vars == <<krs_active_keys, krs_revoked_keys, krs_key_relationships,
              krs_call, krs_out, krs_stack>>
ekm_vars == <<ekm_rotation_hours, ekm_keys, ekm_active_keys, ekm_rotation_log,
              ekm_now, ekm_call, ekm_out>>
other_classes == <<krs_vars, ekm_vars>>
\* what a call that is one step of its caller leaves alone: the other
\* classes and the objects of the caller that holds one list
elsewhere == <<other_classes, py_vars>>

\* ------------------------------------------------------------ python ints
Min(a, b) == IF a < b THEN a ELSE b
Max(a, b) == IF a > b THEN a ELSE b

RECURSIVE Pow(_, _)
\* x ** e for e >= 0
Pow(x, e) == IF e <= 0 THEN 1 ELSE x * Pow(x, e - 1)

RECURSIVE ModPow(_, _, _)
\* pow(x, e, m) for e >= 0: reduced in every step, result in [0, m)
ModPow(x, e, m) == IF e <= 0 THEN 1 % m ELSE ((x % m) * ModPow(x, e - 1, m)) % m

\* pow(d, -1, m): the x in [0, m) with d * x = 1 (mod m); none when d is
\* not invertible, and pow raises ValueError
Inverses(d, m) == {x \in 0..(m - 1) : (d * x) % m = 1 % m}
Invertible(d, m) == Inverses(d, m) # {}
ModInverse(d, m) == CHOOSE x \in Inverses(d, m) : TRUE

\* s[:k] of Python: the first k elements, and for k < 0 all but the last -k
Take(s, k) ==
    IF k >= 0 THEN SubSeq(s, 1, Min(k, Len(s)))
    ELSE SubSeq(s, 1, Max(0, Len(s) + k))

RECURSIVE BytesToInt_LittleEndian(_)
\* mutant of BytesToInt: byteorder='little'
BytesToInt_LittleEndian(b) ==
    IF Len(b) = 0 THEN 0
    ELSE b[1] + 256 * BytesToInt_LittleEndian(SubSeq(b, 2, Len(b)))

RECURSIVE BytesToInt(_)
\* int.from_bytes(b, byteorder='big')
BytesToInt(b) ==
    IF Len(b) = 0 THEN 0
    ELSE 256 * BytesToInt(SubSeq(b, 1, Len(b) - 1)) + b[Len(b)]

\* mutant of FitsBytes: an integer too big for n bytes is cut to its low
\* n bytes
FitsBytes_Truncating(v, n) == n >= 0

\* whether v.to_bytes(n, byteorder='big') succeeds, for v >= 0
FitsBytes(v, n) == n >= 0 /\ v < Pow(256, n)
\* v.to_bytes(n, byteorder='big')
IntToBytes(v, n) == [i \in 1..n |-> (v \div Pow(256, n - i)) % 256]

\* ---------------------------------------------------------------- outcomes
Ok(v) == [kind |-> "ok", error |-> "", value |-> v]
Raise(e) == [kind |-> "raise", error |-> e, value |-> <<>>]
NoCall == [kind |-> "none", error |-> "", value |-> <<>>]
\* _lagrange_interpolation returns an int, not a sequence
OkInt(v) == [kind |-> "ok", error |-> "", value |-> v]
RaiseInt(e) == [kind |-> "raise", error |-> e, value |-> 0]

\* SecretShare(share_id, share_value, node_id)
SecretShare(i, v, l) == [share_id |-> i, share_value |-> v, node_id |-> l]

\* ------------------------------------------------------- ShamirSecretSharing
\* __init__, lines 38-44: the only test is threshold > total_shares
InitOutcome(k, n, p) == IF k > n THEN "InvalidConfiguration" ELSE "ok"

\* mutant of RandBelow: secrets.randbelow(p - 1), the top residue never drawn
RandBelow_OneShort(p) == 0..(p - 2)

\* secrets.randbelow(p): any of 0..p-1
RandBelow(p) == 0..(p - 1)

\* the draws of one _generate_polynomial call: range(k - 1) of them
RandomDraws(k, p) == [1..Max(k - 1, 0) -> RandBelow(p)]

\* mutant of generate_polynomial: the secret is appended after the draws
generate_polynomial_SecretLast(secret_int, draws) == draws \o <<secret_int>>

\* _generate_polynomial: [secret, r1, ..., r(k-1)]
generate_polynomial(secret_int, draws) == <<secret_int>> \o draws

RECURSIVE EvalLoop_ExponentOff(_, _, _, _, _)
\* mutant of EvalLoop: enumerate(coefficients, 1), every exponent one too high
EvalLoop_ExponentOff(coefs, x, p, i, result) ==
    IF i > Len(coefs) THEN result
    ELSE EvalLoop_ExponentOff(coefs, x, p, i + 1,
                  (result + coefs[i] * ModPow(x, i, p)) % p)

RECURSIVE EvalLoop(_, _, _, _, _)
\* the loop of _evaluate_polynomial from position i (coefficient i - 1)
EvalLoop(coefs, x, p, i, result) ==
    IF i > Len(coefs) THEN result
    ELSE EvalLoop(coefs, x, p, i + 1,
                  (result + coefs[i] * ModPow(x, i - 1, p)) % p)

\* _evaluate_polynomial
evaluate_polynomial(coefs, x, p) == EvalLoop(coefs, x, p, 1, 0)

\* f"node_{i+1}" for the i-th share
NodeName == <<"node_1", "node_2", "node_3", "node_4", "node_5", "node_6",
              "node_7", "node_8">>

\* mutant of SecretTooLarge: > instead of >=
SecretTooLarge_Strict(secret_int, p) == secret_int > p

\* split_secret's test of the secret, lines 90-93
SecretTooLarge(secret_int, p) == secret_int >= p

\* mutant of WrongLabelCount: only too few labels are refused
WrongLabelCount_TooFewOnly(given, ids, n) == given /\ Len(ids) < n

\* split_secret's test of node_ids, lines 99-102
WrongLabelCount(given, ids, n) == given /\ Len(ids) # n

\* mutant of MakeShares: range(n) instead of range(1, n + 1), so that the
\* first share is the polynomial's value at 0
MakeShares_FromZero(coefs, ids, n, p) ==
    [i \in 1..n |-> SecretShare(i, evaluate_polynomial(coefs, i - 1, p), ids[i])]

\* mutant of MakeShares: share_id counts from 0
MakeShares_IdFromZero(coefs, ids, n, p) ==
    [i \in 1..n |-> SecretShare(i - 1, evaluate_polynomial(coefs, i, p), ids[i])]

\* the shares built by lines 105-112
MakeShares(coefs, ids, n, p) ==
    [i \in 1..n |-> SecretShare(i, evaluate_polynomial(coefs, i, p), ids[i])]

\* split_secret: the outcome and the polynomial generated on the way (none
\* when the secret is rejected before line 96)
split_secret(sec, given, ids, draws, k, n, p) ==
    LET secret_int == BytesToInt(sec)
        coefs == generate_polynomial(secret_int, draws)
        labels == IF given THEN ids ELSE SubSeq(NodeName, 1, n)
    IN  IF SecretTooLarge(secret_int, p)
        THEN [out |-> Raise("SecretTooLarge"), coefficients |-> <<>>]
        ELSE IF WrongLabelCount(given, ids, n)
        THEN [out |-> Raise("InvalidConfiguration"), coefficients |-> coefs]
        ELSE [out |-> Ok(MakeShares(coefs, labels, n, p)), coefficients |-> coefs]

\* mutant of TooFewShares: the test is off by one
TooFewShares_OffByOne(shares, k) == Len(shares) < k - 1

\* _lagrange_interpolation's test of the number of shares, line 126
TooFewShares(shares, k) == Len(shares) < k

RECURSIVE LagrangeProducts_PlusSign(_, _, _, _, _, _)
\* mutant of LagrangeProducts: the numerator multiplies by share_id, not by
\* its negative
LagrangeProducts_PlusSign(shares, p, i, j, numerator, denominator) ==
    IF j > Len(shares) THEN <<numerator, denominator>>
    ELSE IF i # j
    THEN LagrangeProducts_PlusSign(shares, p, i, j + 1,
             (numerator * shares[j].share_id) % p,
             (denominator * (shares[i].share_id - shares[j].share_id)) % p)
    ELSE LagrangeProducts_PlusSign(shares, p, i, j + 1, numerator, denominator)

RECURSIVE LagrangeProducts_SwappedDifference(_, _, _, _, _, _)
\* mutant of LagrangeProducts: the denominator multiplies by x_j - x_i
LagrangeProducts_SwappedDifference(shares, p, i, j, numerator, denominator) ==
    IF j > Len(shares) THEN <<numerator, denominator>>
    ELSE IF i # j
    THEN LagrangeProducts_SwappedDifference(shares, p, i, j + 1,
             (numerator * (0 - shares[j].share_id)) % p,
             (denominator * (shares[j].share_id - shares[i].share_id)) % p)
    ELSE LagrangeProducts_SwappedDifference(shares, p, i, j + 1,
                                            numerator, denominator)

RECURSIVE LagrangeProducts_LaterOnly(_, _, _, _, _, _)
\* mutant of LagrangeProducts: the inner loop runs over the shares after
\* share i only
LagrangeProducts_LaterOnly(shares, p, i, j, numerator, denominator) ==
    IF j > Len(shares) THEN <<numerator, denominator>>
    ELSE IF j > i
    THEN LagrangeProducts_LaterOnly(shares, p, i, j + 1,
             (numerator * (0 - shares[j].share_id)) % p,
             (denominator * (shares[i].share_id - shares[j].share_id)) % p)
    ELSE LagrangeProducts_LaterOnly(shares, p, i, j + 1, numerator, denominator)

RECURSIVE LagrangeProducts(_, _, _, _, _, _)
\* the inner loop (lines 137-140) for share i from position j on:
\* <<numerator, denominator>>
LagrangeProducts(shares, p, i, j, numerator, denominator) ==
    IF j > Len(shares) THEN <<numerator, denominator>>
    ELSE IF i # j
    THEN LagrangeProducts(shares, p, i, j + 1,
             (numerator * (0 - shares[j].share_id)) % p,
             (denominator * (shares[i].share_id - shares[j].share_id)) % p)
    ELSE LagrangeProducts(shares, p, i, j + 1, numerator, denominator)

\* mutant of LagrangeCoefficient: the denominator is not inverted
LagrangeCoefficient_NoInverse(numerator, denominator, p) ==
    (numerator * denominator) % p

\* line 143: numerator * pow(denominator, -1, p) % p
LagrangeCoefficient(numerator, denominator, p) ==
    (numerator * ModInverse(denominator, p)) % p

RECURSIVE LagrangeLoop_ZeroInverse(_, _, _, _)
\* mutant of LagrangeLoop: the inverse is pow(denominator, p - 2, p), which
\* is 0 for a denominator without inverse, so the term is dropped silently
LagrangeLoop_ZeroInverse(shares, p, i, acc) ==
    IF i > Len(shares) THEN OkInt(acc)
    ELSE LET nd == LagrangeProducts(shares, p, i, 1, 1, 1)
         IN  IF ~Invertible(nd[2], p)
             THEN LagrangeLoop_ZeroInverse(shares, p, i + 1, acc)
             ELSE LagrangeLoop_ZeroInverse(shares, p, i + 1,
                      (acc + shares[i].share_value
                             * LagrangeCoefficient(nd[1], nd[2], p)) % p)

RECURSIVE LagrangeLoop_SkipLast(_, _, _, _)
\* mutant of LagrangeLoop: the outer loop stops before the last share
LagrangeLoop_SkipLast(shares, p, i, acc) ==
    IF i > Len(shares) - 1 THEN OkInt(acc)
    ELSE LET nd == LagrangeProducts(shares, p, i, 1, 1, 1)
         IN  IF ~Invertible(nd[2], p) THEN RaiseInt("NotInvertible")
             ELSE LagrangeLoop_SkipLast(shares, p, i + 1,
                      (acc + shares[i].share_value
                             * LagrangeCoefficient(nd[1], nd[2], p)) % p)

RECURSIVE LagrangeLoop(_, _, _, _)
\* the outer loop (lines 133-144) from share i on, with the sum so far
LagrangeLoop(shares, p, i, acc) ==
    IF i > Len(shares) THEN OkInt(acc)
    ELSE LET nd == LagrangeProducts(shares, p, i, 1, 1, 1)
         IN  IF ~Invertible(nd[2], p) THEN RaiseInt("NotInvertible")
             ELSE LagrangeLoop(shares, p, i + 1,
                      (acc + shares[i].share_value
                             * LagrangeCoefficient(nd[1], nd[2], p)) % p)

\* _lagrange_interpolation
lagrange_interpolation(shares, k, p) ==
    IF TooFewShares(shares, k) THEN RaiseInt("InsufficientShares")
    ELSE LagrangeLoop(Take(shares, k), p, 1, 0)

\* reconstruct_secret
reconstruct_secret(shares, length, k, p) ==
    LET r == lagrange_interpolation(shares, k, p)
    IN  IF r.kind = "raise" THEN Raise(r.error)
        ELSE IF length < 0 THEN Raise("NegativeLength")
        ELSE IF ~FitsBytes(r.value, length) THEN Raise("OverflowError")
        ELSE Ok(IntToBytes(r.value, length))

\* mutant of verify_share: the value p itself passes
verify_share_ValueUpToP(share, n, p) ==
    /\ 1 <= share.share_id /\ share.share_id <= n
    /\ 0 <= share.share_value /\ share.share_value <= p

\* verify_share
verify_share(share, n, p) ==
    /\ 1 <= share.share_id /\ share.share_id <= n
    /\ 0 <= share.share_value /\ share.share_value < p

\* ------------------------------------------------------ KeyRevocationSystem
\* src/security/prevention/key_revocation.py.  The state of the system is a
\* record of its three fields; revoked_keys and key_relationships are
\* functions on all key ids, with NoRecord and the empty list for the keys
\* the dictionaries do not hold.  The timestamp of a record is left out.
KeyIds == {"key_main", "key_derived_1", "key_derived_2"}

\* RevocationRecord(key_id, timestamp, reason, cascade), and no record
RevocationRecord(reason, cascade) == [reason |-> reason, cascade |-> cascade]
NoRecord == [reason |-> "none", cascade |-> FALSE]

\* the system as a value
KeySystem(active, revoked, links) ==
    [active_keys |-> active, revoked_keys |-> revoked,
     key_relationships |-> links]

\* register_key that also lifts the revocation of the key
register_key_Reinstating(sys, key_id) ==
    [sys EXCEPT !.active_keys = @ \cup {key_id},
                !.revoked_keys[key_id] = NoRecord]

\* register_key
register_key(sys, key_id) ==
    [sys EXCEPT !.active_keys = @ \cup {key_id}]

\* link_keys
link_keys(sys, parent_key, child_key) ==
    [sys EXCEPT !.key_relationships[parent_key] = Append(@, child_key)]

\* lines 71-77 without line 71: the key gets its record and stays active
RevokePrimary_KeepsActive(sys, key_id, reason, cascade) ==
    [sys EXCEPT !.revoked_keys[key_id] = RevocationRecord(reason, cascade)]

\* revoke_key, lines 71-78: the key leaves active_keys and gets its record
RevokePrimary(sys, key_id, reason, cascade) ==
    [sys EXCEPT !.active_keys = @ \ {key_id},
                !.revoked_keys[key_id] = RevocationRecord(reason, cascade)]

RECURSIVE revoke_key(_, _, _, _)
RECURSIVE CascadeLoop(_, _, _, _)
\* revoke_key: the system after the call and the list returned
revoke_key(sys, key_id, reason, cascade) ==
    IF key_id \notin sys.active_keys THEN [sys |-> sys, revoked |-> <<>>]
    ELSE LET primary == RevokePrimary(sys, key_id, reason, cascade)
         IN  IF cascade /\ primary.key_relationships[key_id] # <<>>
             THEN CascadeLoop(primary, primary.key_relationships[key_id],
                              1, <<key_id>>)
             ELSE [sys |-> primary, revoked |-> <<key_id>>]

\* the loop of lines 82-88 from child j on, with the keys revoked so far
CascadeLoop(sys, children, j, revoked) ==
    IF j > Len(children) THEN [sys |-> sys, revoked |-> revoked]
    ELSE LET r == revoke_key(sys, children[j], "rotation", TRUE)
         IN  CascadeLoop(r.sys, children, j + 1, revoked \o r.revoked)

\* is_revoked
is_revoked(sys, key_id) == sys.revoked_keys[key_id] # NoRecord

\* verify_key
verify_key(sys, key_id) ==
    key_id \in sys.active_keys /\ sys.revoked_keys[key_id] = NoRecord

\* no call of the system yet
NoKeyCall == [op |-> "none", key_id |-> "", child_key |-> "", cascade |-> FALSE]

\* a call and its arguments
KeyCall(op, key_id, child_key, cascade) ==
    [op |-> op, key_id |-> key_id, child_key |-> child_key, cascade |-> cascade]

\* ------------------------------------------------- class EphemeralKeyManager
\* A string is taken apart at its colons: a session id is the sequence of
\* its colon-free segments ("a:b" is <<"a", "b">>), and so is a key id.
\* secrets.token_hex draws any token, one that was drawn before included.
\* key_material is left out: it is drawn once and no method writes it
\* (zeroize_key overwrites a copy).  Every time.time() of a call is a
\* reading of its own: the clock may move between two readings of one call.
Sessions == {<<"a">>, <<"a", "b">>}

Tokens == {"t1", "t2"}

RotationHours == {0, 1}

SecondsPerHour == 3600

\* the clock stops after this many hours
MaxClock == 2

\* the number of EphemeralKey objects made at most
MaxKeys == 3

\* what time.time() can read
ClockValues == {h * SecondsPerHour : h \in 0..MaxClock}

\* what time.time() can read when it has read t before
ReadsAfter(t) == {u \in ClockValues : u >= t}

\* f"{session_id}:{token}"
KeyId(session_id, token) == session_id \o <<token>>

\* key_id.split(':')[0]
SplitFirst(key_id) == <<key_id[1]>>

AllKeyIds == {KeyId(s, tk) : s \in Sessions, tk \in Tokens}

\* the dataclass EphemeralKey
EphemeralKey(key_id, created_at, expires_at) ==
    [key_id |-> key_id, created_at |-> created_at, expires_at |-> expires_at,
     rotated |-> FALSE, zeroized |-> FALSE]

\* a dict as the sequence of its items, in insertion order; an item has a
\* key id and the position in keys of its object
DictHas(d, k) == \E i \in 1..Len(d) : d[i].key_id = k

DictGet(d, k) == d[CHOOSE i \in 1..Len(d) : d[i].key_id = k].obj

\* d[k] = obj: a key the dict has keeps its place
DictSet(d, k, obj) ==
    IF DictHas(d, k)
    THEN [i \in 1..Len(d) |-> IF d[i].key_id = k
                               THEN [key_id |-> k, obj |-> obj] ELSE d[i]]
    ELSE Append(d, [key_id |-> k, obj |-> obj])

\* del d[k]
DictDel(d, k) ==
    LET Keep(e) == e.key_id # k IN SelectSeq(d, Keep)

DictKeys(d) == [i \in 1..Len(d) |-> d[i].key_id]

\* the manager as a value
Manager(hours, keys, active, log) ==
    [rotation_hours |-> hours, keys |-> keys, active_keys |-> active,
     rotation_log |-> log]

\* what a call returns: None, a key object (its position in keys), a count
ReturnsNone == [kind |-> "none", val |-> 0]

ReturnsKey(obj) == [kind |-> "key", val |-> obj]

ReturnsCount(n) == [kind |-> "count", val |-> n]

\* generate_key; the key made is the last of keys
generate_key(m, session_id, token, now) ==
    LET key_id == KeyId(session_id, token)
        expires_at == now + (m.rotation_hours * SecondsPerHour)
    IN  [m EXCEPT !.keys = Append(@, EphemeralKey(key_id, now, expires_at)),
                  !.active_keys = DictSet(@, key_id, Len(m.keys) + 1)]

\* zeroize_key that marks the key and leaves it in active_keys
zeroize_key_Keeping(m, key_id) ==
    IF ~DictHas(m.active_keys, key_id) THEN m
    ELSE [m EXCEPT !.keys[DictGet(m.active_keys, key_id)].zeroized = TRUE]

\* zeroize_key
zeroize_key(m, key_id) ==
    IF ~DictHas(m.active_keys, key_id) THEN m
    ELSE LET obj == DictGet(m.active_keys, key_id)
         IN  IF ~m.keys[obj].zeroized
             THEN [m EXCEPT !.keys[obj].zeroized = TRUE,
                            !.active_keys = DictDel(@, key_id)]
             ELSE m

\* get_key: the manager after the call and what is returned
get_key(m, key_id, now) ==
    IF ~DictHas(m.active_keys, key_id) THEN [m |-> m, out |-> ReturnsNone]
    ELSE LET obj == DictGet(m.active_keys, key_id)
         IN  IF now > m.keys[obj].expires_at
             THEN [m |-> zeroize_key(m, key_id), out |-> ReturnsNone]
             ELSE [m |-> m, out |-> ReturnsKey(obj)]

\* an entry of rotation_log
RotationEntry(timestamp, old_key_id, new_key_id, reason) ==
    [timestamp |-> timestamp, old_key_id |-> old_key_id,
     new_key_id |-> new_key_id, reason |-> reason]

\* rotate_key; now is the time generate_key reads (line 60), log_time the
\* time read for the entry of rotation_log (line 123)
rotate_key(m, key_id, token, now, log_time) ==
    IF ~DictHas(m.active_keys, key_id) THEN [m |-> m, out |-> ReturnsNone]
    ELSE LET old_key == DictGet(m.active_keys, key_id)
             session_id == SplitFirst(key_id)
             made == generate_key(m, session_id, token, now)
             new_key == Len(made.keys)
             marked == [made EXCEPT !.keys[old_key].rotated = TRUE]
             zeroized == zeroize_key(marked, key_id)
         IN  [m |-> [zeroized EXCEPT !.rotation_log =
                       Append(@, RotationEntry(log_time, key_id,
                                               zeroized.keys[new_key].key_id,
                                               "scheduled_rotation"))],
              out |-> ReturnsKey(new_key)]

\* the keys of the dict that are past their time, in its order
ExpiredKeys(m, now) ==
    LET Expired(e) == now > m.keys[e.obj].expires_at
    IN  DictKeys(SelectSeq(m.active_keys, Expired))

RECURSIVE ZeroizeEach(_, _, _)
\* the loop of lines 164-165 from key i on
ZeroizeEach(m, key_ids, i) ==
    IF i > Len(key_ids) THEN m
    ELSE ZeroizeEach(zeroize_key(m, key_ids[i]), key_ids, i + 1)

\* cleanup_expired_keys
cleanup_expired_keys(m, now) ==
    LET expired_keys == ExpiredKeys(m, now)
    IN  [m |-> ZeroizeEach(m, expired_keys, 1),
         out |-> ReturnsCount(Len(expired_keys))]

RECURSIVE RotateEach(_, _, _, _, _, _)
\* the loop of lines 178-181 from key i on; tokens[i] is the token the
\* i-th rotate_key draws, times[2i - 1] and times[2i] the two times it reads
RotateEach(m, current_keys, tokens, reason, times, i) ==
    IF i > Len(current_keys) THEN m
    ELSE LET r == rotate_key(m, current_keys[i], tokens[i],
                             times[2 * i - 1], times[2 * i])
             after == IF r.out.kind = "key"
                      THEN [r.m EXCEPT
                              !.rotation_log[Len(r.m.rotation_log)].reason = reason]
                      ELSE r.m
         IN  RotateEach(after, current_keys, tokens, reason, times, i + 1)

\* rotate_all_keys
rotate_all_keys(m, reason, tokens, times) ==
    [m |-> RotateEach(m, DictKeys(m.active_keys), tokens, reason, times, 1),
     out |-> ReturnsNone]

\* no call of the manager yet, or none since the clock moved
NoManagerCall == [op |-> "none", key_id |-> <<>>]

ManagerCall(op, key_id) == [op |-> op, key_id |-> key_id]

\* ---------------------------------------------------- objects by reference
\* A Python list and a SecretShare are objects: a name or a list item holds
\* the address of one, and a write through one name shows through every
\* other.  py_heap[a] is the object at address a: a SecretShare with its
\* fields, or a list with the addresses of its items.
ShareCell(share) == [kind |-> "share", share |-> share, items |-> <<>>]

ListCell(items) ==
    [kind |-> "list", share |-> SecretShare(0, 0, ""), items |-> items]

\* the shares a list holds, in order
Deref(heap, ref) ==
    [j \in 1..Len(heap[ref].items) |-> heap[heap[ref].items[j]].share]

\* del shares[k:] in place of the slice: the list itself is cut down and
\* the name keeps its address
SliceList_InPlace(heap, ref, k) ==
    [heap |-> [heap EXCEPT ![ref].items = Take(@, k)], ref |-> ref]

\* line 130, shares = shares[:self.threshold]: a new list with the first
\* items of the old one, and the address the local name shares now holds
SliceList(heap, ref, k) ==
    [heap |-> Append(heap, ListCell(Take(heap[ref].items, k))),
     ref |-> Len(heap) + 1]

\* no call runs: there are no locals
NoFrame == [pc |-> "none", shares |-> 0, secret_length |-> 0, i |-> 0, acc |-> 0]

\* the frame on entry to reconstruct_secret(shares, secret_length): the
\* parameter shares holds the address the caller passed
EntryFrame(ref, length) ==
    [NoFrame EXCEPT !.pc = "r_check", !.shares = ref, !.secret_length = length]

\* ------------------------------------------------------------- the threads
\* the threads that call methods of one scheme object
Threads == 1..MaxThreads

\* the frame of a thread that runs no call
IdleFrame ==
    [op |-> "none", pc |-> "idle", secret |-> <<>>, secret_int |-> 0,
     draws |-> <<>>, coefficients |-> <<>>, arg |-> <<>>, shares |-> <<>>,
     secret_length |-> 0, i |-> 0, acc |-> 0, out |-> NoCall]

\* the frame on entry to split_secret(secret)
SplitFrame(sec) ==
    [IdleFrame EXCEPT !.op = "split", !.pc = "s_convert", !.secret = sec]

\* the frame on entry to reconstruct_secret(shares, secret_length)
ReconstructFrame(shares, length) ==
    [IdleFrame EXCEPT !.op = "reconstruct", !.pc = "r_check", !.arg = shares,
                      !.shares = shares, !.secret_length = length]

\* mutant of PolynomialRead: the polynomial is kept in one place for all
\* calls, so the loop reads the one another call generated
PolynomialRead_Latest(frs, t) ==
    LET others == {o \in Threads \ {t} : frs[o].coefficients # <<>>}
    IN  IF others = {} THEN frs[t].coefficients
        ELSE frs[CHOOSE o \in others : TRUE].coefficients

\* the polynomial the share loop of thread t reads (line 107): the local
\* name coefficients of its own call
PolynomialRead(frs, t) == frs[t].coefficients

\* the arguments the caller passes
Thresholds == (0 - 1)..(MaxShares + 1)
ShareCounts == 1..MaxShares
Moduli == 2..MaxModulus
Secrets == UNION {[1..l -> 0..MaxByte] : l \in 0..MaxSecretLen}
OwnerLabels == <<"node_us_east", "node_eu_west", "node_asia_pacific",
                 "node_d", "node_e", "node_f", "node_g", "node_h">>
LabelCounts == 0..(MaxShares + 1)
\* secret_length: around the lengths of the secrets; for made-up shares,
\* where no secret sets a length, the two lengths that tell a zero result
\* from a nonzero one
Lengths == (0 - 1)..MaxSecretLen
ForgedLengths == 0..1
\* positions in the list of shares a split returned, in any order, with
\* repetitions
Selections(n) == UNION {[1..l -> 1..n] : l \in 0..MaxSupplied}
\* shares made up by the caller: indices around [1, n], values around [0, p)
ForgedShares(n, p) ==
    {SecretShare(i, v, "forged") : i \in 0..(n + 1), v \in (0 - 1)..p}
ForgedLists(n, p) == UNION {[1..l -> ForgedShares(n, p)] : l \in 0..MaxSupplied}

Init ==
    /\ ctor = "pending"
    /\ threshold = 0 /\ total_shares = 0 /\ prime = 0
    /\ last = "none"
    /\ secret = <<>> /\ labelled = FALSE /\ node_ids = <<>>
    /\ coefficients = <<>> /\ split_out = NoCall
    /\ supplied = <<>> /\ secret_length = 0 /\ recon_out = NoCall
    /\ again_coefficients = <<>> /\ again_out = NoCall
    /\ verify_pos = 0 /\ verify_arg = SecretShare(0, 0, "")
    /\ verify_out = NoCall
    /\ repeats = 0
    /\ frames = [t \in Threads |-> IdleFrame]
    /\ py_heap = <<>> /\ py_held = 0 /\ py_held_heap = <<>>
    /\ py_frame = NoFrame
    /\ krs_active_keys = {}
    /\ krs_revoked_keys = [k \in KeyIds |-> NoRecord]
    /\ krs_key_relationships = [k \in KeyIds |-> <<>>]
    /\ krs_call = NoKeyCall
    /\ krs_out = <<>>
    /\ krs_stack = <<>>
    /\ ekm_rotation_hours = -1
    /\ ekm_keys = <<>>
    /\ ekm_active_keys = <<>>
    /\ ekm_rotation_log = <<>>
    /\ ekm_now = 0
    /\ ekm_call = NoManagerCall
    /\ ekm_out = ReturnsNone

\* ShamirSecretSharing(threshold=k, total_shares=n, prime=p)
Construct ==
    /\ ctor = "pending"
    /\ \E k \in Thresholds, n \in ShareCounts, p \in Moduli :
         /\ ctor' = InitOutcome(k, n, p)
         /\ IF InitOutcome(k, n, p) = "ok"
            THEN threshold' = k /\ total_shares' = n /\ prime' = p
            ELSE UNCHANGED <<threshold, total_shares, prime>>
    /\ UNCHANGED <<last, split_vars, recon_vars>>
    /\ UNCHANGED <<again_vars, verify_vars, repeats, frames>>
    /\ UNCHANGED elsewhere

\* shamir.split_secret(secret, node_ids): the caller keeps what it returns
Split ==
    /\ ctor = "ok" /\ last = "none"
    /\ \E sec \in Secrets, given \in BOOLEAN, m \in LabelCounts,
          draws \in RandomDraws(threshold, prime) :
         /\ given \/ m = 0
         /\ LET ids == SubSeq(OwnerLabels, 1, m)
                r == split_secret(sec, given, ids, draws,
                                  threshold, total_shares, prime)
            IN  /\ secret' = sec /\ labelled' = given /\ node_ids' = ids
                /\ coefficients' = r.coefficients
                /\ split_out' = r.out
    /\ last' = "split"
    /\ UNCHANGED <<scheme_vars, recon_vars>>
    /\ UNCHANGED <<again_vars, verify_vars, repeats, frames>>
    /\ UNCHANGED elsewhere

\* shamir.reconstruct_secret(shares, secret_length) on shares picked from
\* those the latest split returned
Reconstruct ==
    /\ ctor = "ok" /\ last = "split" /\ split_out.kind = "ok"
    /\ \E sel \in Selections(total_shares), length \in Lengths :
         LET shares == [j \in 1..Len(sel) |-> split_out.value[sel[j]]]
         IN  /\ supplied' = shares
             /\ secret_length' = length
             /\ recon_out' = reconstruct_secret(shares, length, threshold, prime)
    /\ last' = "reconstruct"
    /\ UNCHANGED <<scheme_vars, split_vars>>
    /\ UNCHANGED <<again_vars, verify_vars, repeats, frames>>
    /\ UNCHANGED elsewhere

\* shamir.reconstruct_secret(shares, secret_length) on shares the caller
\* made up
ReconstructForged ==
    /\ ctor = "ok" /\ last = "none"
    /\ \E shares \in ForgedLists(total_shares, prime), length \in ForgedLengths :
         /\ supplied' = shares
         /\ secret_length' = length
         /\ recon_out' = reconstruct_secret(shares, length, threshold, prime)
    /\ last' = "reconstruct"
    /\ UNCHANGED <<scheme_vars, split_vars>>
    /\ UNCHANGED <<again_vars, verify_vars, repeats, frames>>
    /\ UNCHANGED elsewhere

Next == Construct \/ Split \/ Reconstruct \/ ReconstructForged

Spec == Init /\ [][Next]_vars

\* a second shamir.split_secret(secret, node_ids) with the arguments of the
\* first; the caller keeps both results
SplitAgain ==
    /\ ctor = "ok" /\ last = "split"
    /\ \E draws \in RandomDraws(threshold, prime) :
         LET r == split_secret(secret, labelled, node_ids, draws,
                               threshold, total_shares, prime)
         IN  /\ again_coefficients' = r.coefficients
             /\ again_out' = r.out
    /\ last' = "split_again"
    /\ UNCHANGED <<scheme_vars, split_vars, recon_vars, verify_vars, repeats>>
    /\ UNCHANGED frames
    /\ UNCHANGED elsewhere

\* shamir.verify_share(share) on one of the shares the latest split returned
VerifyShare ==
    /\ ctor = "ok" /\ last = "split" /\ split_out.kind = "ok"
    /\ \E j \in 1..Len(split_out.value) :
         /\ verify_pos' = j
         /\ verify_arg' = split_out.value[j]
         /\ verify_out' = Ok(<<verify_share(split_out.value[j],
                                            total_shares, prime)>>)
    /\ last' = "verify"
    /\ UNCHANGED <<scheme_vars, split_vars, recon_vars, again_vars, repeats>>
    /\ UNCHANGED frames
    /\ UNCHANGED elsewhere

\* shamir.verify_share(share) on a share the caller made up
VerifyForged ==
    /\ ctor = "ok" /\ last = "none"
    /\ \E share \in ForgedShares(total_shares, prime) :
         /\ verify_arg' = share
         /\ verify_out' = Ok(<<verify_share(share, total_shares, prime)>>)
    /\ verify_pos' = 0
    /\ last' = "verify"
    /\ UNCHANGED <<scheme_vars, split_vars, recon_vars, again_vars, repeats>>
    /\ UNCHANGED frames
    /\ UNCHANGED elsewhere

\* the secrets and share lists the threads pass: secrets of one byte below
\* and above the modulus, lists of up to two shares with repeats
ConcSecrets == {<<0>>, <<1>>, <<MaxByte>>}
ConcShares == {SecretShare(1, 1, "held"), SecretShare(2, 0, "held")}
ConcLists == UNION {[1..l -> ConcShares] : l \in 0..2}
ConcCalls ==
    {SplitFrame(sec) : sec \in ConcSecrets}
        \cup {ReconstructFrame(l[1], l[2]) : l \in ConcLists \X ForgedLengths}

\* every thread enters a call on the one scheme object
Fork ==
    /\ ctor = "ok" /\ last = "none"
    /\ frames' \in [Threads -> ConcCalls]
    /\ last' = "concurrent"
    /\ UNCHANGED <<scheme_vars, split_vars, recon_vars>>
    /\ UNCHANGED <<again_vars, verify_vars, repeats>>
    /\ UNCHANGED elsewhere

\* what a step of a thread leaves alone: the scheme object, and all that
\* belongs to the caller of the other specifications
StepFrame ==
    /\ UNCHANGED <<scheme_vars, last, split_vars, recon_vars>>
    /\ UNCHANGED <<again_vars, verify_vars, repeats>>
    /\ UNCHANGED elsewhere

\* split_secret, lines 90-93: the secret as an integer, tested against
\* self.prime
SplitConvert(t) ==
    /\ frames[t].pc = "s_convert"
    /\ LET f == frames[t]
           v == BytesToInt(f.secret)
       IN  frames' = [frames EXCEPT ![t] =
               IF SecretTooLarge(v, prime)
               THEN [f EXCEPT !.secret_int = v, !.pc = "done",
                              !.out = Raise("SecretTooLarge")]
               ELSE [f EXCEPT !.secret_int = v, !.pc = "s_poly"]]
    /\ StepFrame

\* split_secret, line 96: the polynomial, with self.threshold - 1 draws
\* below self.prime
SplitPolynomial(t) ==
    /\ frames[t].pc = "s_poly"
    /\ \E d \in RandomDraws(threshold, prime) :
         LET f == frames[t]
         IN  frames' = [frames EXCEPT ![t] =
                 [f EXCEPT !.draws = d,
                           !.coefficients = generate_polynomial(f.secret_int, d),
                           !.pc = "s_share", !.i = 1]]
    /\ StepFrame

\* split_secret, lines 105-114: one round of the share loop, or the return
SplitShare(t) ==
    /\ frames[t].pc = "s_share"
    /\ LET f == frames[t]
       IN  frames' = [frames EXCEPT ![t] =
               IF f.i > total_shares
               THEN [f EXCEPT !.pc = "done", !.out = Ok(f.shares)]
               ELSE [f EXCEPT
                       !.shares = Append(f.shares,
                           SecretShare(f.i,
                               evaluate_polynomial(PolynomialRead(frames, t),
                                                   f.i, prime),
                               NodeName[f.i])),
                       !.i = f.i + 1]]
    /\ StepFrame

\* _lagrange_interpolation, lines 126-130: the test against self.threshold
\* and the slice
ReconstructCheck(t) ==
    /\ frames[t].pc = "r_check"
    /\ LET f == frames[t]
       IN  frames' = [frames EXCEPT ![t] =
               IF TooFewShares(f.shares, threshold)
               THEN [f EXCEPT !.pc = "done", !.out = Raise("InsufficientShares")]
               ELSE [f EXCEPT !.shares = Take(f.shares, threshold),
                              !.pc = "r_term", !.i = 1, !.acc = 0]]
    /\ StepFrame

\* _lagrange_interpolation, lines 133-146: one round of the outer loop, or
\* the return
ReconstructTerm(t) ==
    /\ frames[t].pc = "r_term"
    /\ LET f == frames[t]
           nd == LagrangeProducts(f.shares, prime, f.i, 1, 1, 1)
       IN  frames' = [frames EXCEPT ![t] =
               IF f.i > Len(f.shares) THEN [f EXCEPT !.pc = "r_bytes"]
               ELSE IF ~Invertible(nd[2], prime)
               THEN [f EXCEPT !.pc = "done", !.out = Raise("NotInvertible")]
               ELSE [f EXCEPT
                       !.acc = (f.acc + f.shares[f.i].share_value
                                  * LagrangeCoefficient(nd[1], nd[2], prime))
                               % prime,
                       !.i = f.i + 1]]
    /\ StepFrame

\* reconstruct_secret, line 162: the bytes of the interpolated integer
ReconstructBytes(t) ==
    /\ frames[t].pc = "r_bytes"
    /\ LET f == frames[t]
       IN  frames' = [frames EXCEPT ![t] =
               [f EXCEPT !.pc = "done",
                         !.out = IF f.secret_length < 0
                                 THEN Raise("NegativeLength")
                                 ELSE IF ~FitsBytes(f.acc, f.secret_length)
                                 THEN Raise("OverflowError")
                                 ELSE Ok(IntToBytes(f.acc, f.secret_length))]]
    /\ StepFrame

\* the threads run their calls in any interleaving of these steps
NextConcurrent ==
    \/ Construct
    \/ Fork
    \/ \E t \in Threads : SplitConvert(t)
    \/ \E t \in Threads : SplitPolynomial(t)
    \/ \E t \in Threads : SplitShare(t)
    \/ \E t \in Threads : ReconstructCheck(t)
    \/ \E t \in Threads : ReconstructTerm(t)
    \/ \E t \in Threads : ReconstructBytes(t)

SpecConcurrent == Init /\ [][NextConcurrent]_vars

\* the caller that only splits and reconstructs from the shares returned
NextSplit == Construct \/ Split \/ Reconstruct

SpecSplit == Init /\ [][NextSplit]_vars

\* the caller that splits the same secret twice
NextResplit == Construct \/ Split \/ SplitAgain

SpecResplit == Init /\ [][NextResplit]_vars

\* the caller that verifies shares: those of a split, or made-up ones
NextVerify == Construct \/ Split \/ VerifyShare \/ VerifyForged

SpecVerify == Init /\ [][NextVerify]_vars

\* ------------------------------------------- the caller holding one list
\* the caller that keeps the shares of a split in a list of its own and
\* passes that one list object to reconstruct_secret, call after call; the
\* call is taken statement by statement
HeldLengths == 0..MaxSecretLen

\* what the steps on the held list leave alone
HeldStep ==
    /\ UNCHANGED <<scheme_vars, last, split_vars, again_vars, frames>>
    /\ UNCHANGED other_classes

\* shares = shamir.split_secret(...); held = [shares[i] for i in sel]
HoldShares ==
    /\ ctor = "ok" /\ last = "split" /\ split_out.kind = "ok"
    /\ py_held = 0
    /\ \E sel \in Selections(total_shares), length \in HeldLengths :
         LET n == Len(split_out.value)
             heap == [a \in 1..n |-> ShareCell(split_out.value[a])]
                       \o <<ListCell([a \in 1..n |-> a]), ListCell(sel)>>
         IN  /\ py_heap' = heap
             /\ py_held' = n + 2
             /\ py_held_heap' = heap
             /\ supplied' = Deref(heap, n + 2)
             /\ secret_length' = length
    /\ UNCHANGED <<recon_out, verify_vars, repeats, py_frame>>
    /\ HeldStep

\* shamir.verify_share(held[pos])
VerifyHeld ==
    /\ py_held # 0 /\ py_frame = NoFrame /\ repeats = 0
    /\ \E pos \in 1..Len(py_heap[py_held].items) :
         LET share == py_heap[py_heap[py_held].items[pos]].share
         IN  /\ verify_pos' = pos
             /\ verify_arg' = share
             /\ verify_out' = Ok(<<verify_share(share, total_shares, prime)>>)
    /\ UNCHANGED <<recon_vars, repeats, py_vars>>
    /\ HeldStep

\* shamir.reconstruct_secret(held, secret_length) is called
EnterReconstruct ==
    /\ py_held # 0 /\ py_frame = NoFrame /\ repeats < MaxRepeats
    /\ py_frame' = EntryFrame(py_held, secret_length)
    /\ UNCHANGED <<recon_vars, verify_vars, repeats>>
    /\ UNCHANGED <<py_heap, py_held, py_held_heap>>
    /\ HeldStep

\* the call returns out: its locals are gone
Returns(out) ==
    /\ recon_out' = out
    /\ repeats' = repeats + 1
    /\ py_frame' = NoFrame

\* _lagrange_interpolation, lines 126-130: the test against self.threshold
\* and the slice
HeldCheck ==
    /\ py_frame.pc = "r_check"
    /\ IF TooFewShares(py_heap[py_frame.shares].items, threshold)
       THEN /\ Returns(Raise("InsufficientShares"))
            /\ UNCHANGED py_heap
       ELSE LET sliced == SliceList(py_heap, py_frame.shares, threshold)
            IN  /\ py_heap' = sliced.heap
                /\ py_frame' = [py_frame EXCEPT !.shares = sliced.ref,
                                                 !.pc = "r_term",
                                                 !.i = 1, !.acc = 0]
                /\ UNCHANGED <<recon_out, repeats>>
    /\ UNCHANGED <<supplied, secret_length, verify_vars, py_held, py_held_heap>>
    /\ HeldStep

\* _lagrange_interpolation, lines 133-146: one round of the outer loop on
\* the shares the local list holds, or the end of the loop
HeldTerm ==
    /\ py_frame.pc = "r_term"
    /\ LET shares == Deref(py_heap, py_frame.shares)
           nd == LagrangeProducts(shares, prime, py_frame.i, 1, 1, 1)
       IN  IF py_frame.i > Len(shares)
           THEN /\ py_frame' = [py_frame EXCEPT !.pc = "r_bytes"]
                /\ UNCHANGED <<recon_out, repeats>>
           ELSE IF ~Invertible(nd[2], prime)
           THEN Returns(Raise("NotInvertible"))
           ELSE /\ py_frame' =
                     [py_frame EXCEPT
                        !.acc = (py_frame.acc
                                   + shares[py_frame.i].share_value
                                       * LagrangeCoefficient(nd[1], nd[2], prime))
                                % prime,
                        !.i = py_frame.i + 1]
                /\ UNCHANGED <<recon_out, repeats>>
    /\ UNCHANGED <<supplied, secret_length, verify_vars>>
    /\ UNCHANGED <<py_heap, py_held, py_held_heap>>
    /\ HeldStep

\* reconstruct_secret, line 162: the bytes of the interpolated integer
HeldBytes ==
    /\ py_frame.pc = "r_bytes"
    /\ Returns(IF py_frame.secret_length < 0 THEN Raise("NegativeLength")
               ELSE IF ~FitsBytes(py_frame.acc, py_frame.secret_length)
               THEN Raise("OverflowError")
               ELSE Ok(IntToBytes(py_frame.acc, py_frame.secret_length)))
    /\ UNCHANGED <<supplied, secret_length, verify_vars>>
    /\ UNCHANGED <<py_heap, py_held, py_held_heap>>
    /\ HeldStep

NextRepeat ==
    \/ Construct \/ Split \/ HoldShares \/ VerifyHeld \/ EnterReconstruct
    \/ HeldCheck \/ HeldTerm \/ HeldBytes

SpecRepeat == Init /\ [][NextRepeat]_vars

\* --------------------------------------- the caller of KeyRevocationSystem
\* the reasons the caller passes (the cascade passes "rotation")
CallerReasons == {"compromised"}

\* the system the variables hold
System == KeySystem(krs_active_keys, krs_revoked_keys, krs_key_relationships)

\* the number of links made
LinkCount(links) ==
    LET RECURSIVE Sum(_)
        Sum(S) == IF S = {} THEN 0
                  ELSE LET k == CHOOSE k \in S : TRUE
                       IN  Len(links[k]) + Sum(S \ {k})
    IN  Sum(KeyIds)

\* the variables take the fields of sys
SystemBecomes(sys) ==
    /\ krs_active_keys' = sys.active_keys
    /\ krs_revoked_keys' = sys.revoked_keys
    /\ krs_key_relationships' = sys.key_relationships

\* the system is called from one thread: a call starts when none is running
NoCallInProgress == krs_stack = <<>> /\ UNCHANGED krs_stack

\* system.register_key(key_id)
RegisterKey ==
    /\ \E k \in KeyIds :
         /\ SystemBecomes(register_key(System, k))
         /\ krs_call' = KeyCall("register_key", "", "", FALSE)
    /\ krs_out' = <<>>
    /\ NoCallInProgress
    /\ UNCHANGED <<shamir_vars, ekm_vars>>

\* system.link_keys(parent_key, child_key)
LinkKeys ==
    /\ LinkCount(krs_key_relationships) < MaxLinks
    /\ \E parent \in KeyIds, child \in KeyIds :
         /\ SystemBecomes(link_keys(System, parent, child))
         /\ krs_call' = KeyCall("link_keys", "", "", FALSE)
    /\ krs_out' = <<>>
    /\ NoCallInProgress
    /\ UNCHANGED <<shamir_vars, ekm_vars>>

\* system.revoke_key(key_id, reason, cascade)
RevokeKey ==
    /\ \E k \in KeyIds, reason \in CallerReasons, cascade \in BOOLEAN :
         LET r == revoke_key(System, k, reason, cascade)
         IN  /\ SystemBecomes(r.sys)
             /\ krs_out' = r.revoked
             /\ krs_call' = KeyCall("revoke_key", k, "", cascade)
    /\ NoCallInProgress
    /\ UNCHANGED <<shamir_vars, ekm_vars>>

NextRevocation == RegisterKey \/ LinkKeys \/ RevokeKey

SpecRevocation == Init /\ [][NextRevocation]_vars

\* revoke_key step by step.  A frame of krs_stack is one activation of
\* revoke_key: its arguments, its list revoked, the index j of the child the
\* loop of line 82 is at, and its position: "test" before line 69, "loop" at
\* line 82, "return" at line 90.
RevokeFrame(key_id, reason, cascade) ==
    [key_id |-> key_id, reason |-> reason, cascade |-> cascade,
     revoked |-> <<>>, j |-> 1, pc |-> "test"]

\* the deepest the recursion can get: a frame below the top is in its loop,
\* so its key was active when tested and is not active since
MaxDepth == Cardinality(KeyIds) + 1

Top == krs_stack[Len(krs_stack)]

Below == SubSeq(krs_stack, 1, Len(krs_stack) - 1)

\* system.revoke_key(key_id, reason) is called: cascade is True by default
CallRevoke ==
    /\ krs_stack = <<>>
    /\ \E k \in KeyIds, reason \in CallerReasons :
         /\ krs_stack' = <<RevokeFrame(k, reason, TRUE)>>
         /\ krs_call' = KeyCall("revoke_key", k, "", TRUE)
    /\ krs_out' = <<>>
    /\ UNCHANGED <<krs_active_keys, krs_revoked_keys, krs_key_relationships>>
    /\ UNCHANGED <<shamir_vars, ekm_vars>>

\* lines 69-81: test the key, revoke it, decide whether to cascade
RevokeTest ==
    /\ krs_stack # <<>> /\ Top.pc = "test"
    /\ IF Top.key_id \notin krs_active_keys
       THEN /\ krs_stack' = Below \o <<[Top EXCEPT !.pc = "return"]>>
            /\ UNCHANGED <<krs_active_keys, krs_revoked_keys,
                           krs_key_relationships>>
       ELSE /\ SystemBecomes(RevokePrimary(System, Top.key_id, Top.reason,
                                           Top.cascade))
            /\ krs_stack' = Below \o
                 <<[Top EXCEPT !.revoked = <<Top.key_id>>,
                               !.pc = IF Top.cascade
                                         /\ krs_key_relationships[Top.key_id] # <<>>
                                      THEN "loop" ELSE "return"]>>
    /\ UNCHANGED <<krs_call, krs_out>>
    /\ UNCHANGED <<shamir_vars, ekm_vars>>

\* lines 82-87: the loop ends, or calls revoke_key on the next child
RevokeLoop ==
    /\ krs_stack # <<>> /\ Top.pc = "loop"
    /\ LET children == krs_key_relationships[Top.key_id]
       IN  IF Top.j > Len(children)
           THEN krs_stack' = Below \o <<[Top EXCEPT !.pc = "return"]>>
           ELSE /\ Len(krs_stack) < MaxDepth
                /\ krs_stack' = krs_stack \o
                     <<RevokeFrame(children[Top.j], "rotation", TRUE)>>
    /\ UNCHANGED <<krs_active_keys, krs_revoked_keys, krs_key_relationships,
                   krs_call, krs_out>>
    /\ UNCHANGED <<shamir_vars, ekm_vars>>

\* line 90, and line 88 in the caller: the list goes to the caller
RevokeReturn ==
    /\ krs_stack # <<>> /\ Top.pc = "return"
    /\ IF Len(krs_stack) = 1
       THEN /\ krs_stack' = <<>>
            /\ krs_out' = Top.revoked
       ELSE /\ LET caller == krs_stack[Len(krs_stack) - 1]
               IN  krs_stack' = SubSeq(krs_stack, 1, Len(krs_stack) - 2) \o
                     <<[caller EXCEPT !.revoked = @ \o Top.revoked,
                                      !.j = @ + 1]>>
            /\ UNCHANGED krs_out
    /\ UNCHANGED <<krs_active_keys, krs_revoked_keys, krs_key_relationships,
                   krs_call>>
    /\ UNCHANGED <<shamir_vars, ekm_vars>>

StepRevoke == RevokeTest \/ RevokeLoop \/ RevokeReturn

NextCascade == RegisterKey \/ LinkKeys \/ CallRevoke \/ StepRevoke

\* a call that can take a step takes it: the interpreter runs the thread
SpecCascade == Init /\ [][NextCascade]_vars /\ WF_vars(StepRevoke)

\* ------------------------------------------- a caller of EphemeralKeyManager
\* the manager the variables hold
TheManager ==
    Manager(ekm_rotation_hours, ekm_keys, ekm_active_keys, ekm_rotation_log)

ManagerBecomes(m) ==
    /\ ekm_keys' = m.keys
    /\ ekm_active_keys' = m.active_keys
    /\ ekm_rotation_log' = m.rotation_log
    /\ UNCHANGED ekm_rotation_hours

ManagerMade == ekm_rotation_hours # -1

\* manager = EphemeralKeyManager(rotation_hours=h)
NewManager ==
    /\ ~ManagerMade
    /\ ekm_rotation_hours' \in RotationHours
    /\ ekm_call' = ManagerCall("init", <<>>)
    /\ UNCHANGED <<ekm_keys, ekm_active_keys, ekm_rotation_log, ekm_now, ekm_out>>
    /\ UNCHANGED <<shamir_vars, krs_vars>>

\* manager.generate_key(session_id)
GenerateKey ==
    /\ ManagerMade /\ Len(ekm_keys) < MaxKeys
    /\ \E session_id \in Sessions, token \in Tokens :
         /\ ManagerBecomes(generate_key(TheManager, session_id, token, ekm_now))
         /\ ekm_call' = ManagerCall("generate_key", KeyId(session_id, token))
    /\ ekm_out' = ReturnsKey(Len(ekm_keys) + 1)
    /\ UNCHANGED ekm_now
    /\ UNCHANGED <<shamir_vars, krs_vars>>

\* manager.get_key(key_id)
GetKey ==
    /\ ManagerMade
    /\ \E key_id \in AllKeyIds :
         LET r == get_key(TheManager, key_id, ekm_now)
         IN  /\ ManagerBecomes(r.m)
             /\ ekm_out' = r.out
             /\ ekm_call' = ManagerCall("get_key", key_id)
    /\ UNCHANGED ekm_now
    /\ UNCHANGED <<shamir_vars, krs_vars>>

\* manager.rotate_key(key_id)
RotateKey ==
    /\ ManagerMade /\ Len(ekm_keys) < MaxKeys
    /\ \E key_id \in AllKeyIds, token \in Tokens,
          log_time \in ReadsAfter(ekm_now) :
         LET r == rotate_key(TheManager, key_id, token, ekm_now, log_time)
         IN  /\ ManagerBecomes(r.m)
             /\ ekm_out' = r.out
             /\ ekm_call' = ManagerCall("rotate_key", key_id)
             /\ ekm_now' = IF r.out = ReturnsNone THEN ekm_now ELSE log_time
    /\ UNCHANGED <<shamir_vars, krs_vars>>

\* manager.zeroize_key(key_id)
ZeroizeKey ==
    /\ ManagerMade
    /\ \E key_id \in AllKeyIds :
         /\ ManagerBecomes(zeroize_key(TheManager, key_id))
         /\ ekm_call' = ManagerCall("zeroize_key", key_id)
    /\ ekm_out' = ReturnsNone
    /\ UNCHANGED ekm_now
    /\ UNCHANGED <<shamir_vars, krs_vars>>

\* manager.cleanup_expired_keys()
CleanupExpiredKeys ==
    /\ ManagerMade
    /\ LET r == cleanup_expired_keys(TheManager, ekm_now)
       IN  /\ ManagerBecomes(r.m)
           /\ ekm_out' = r.out
    /\ ekm_call' = ManagerCall("cleanup_expired_keys", <<>>)
    /\ UNCHANGED ekm_now
    /\ UNCHANGED <<shamir_vars, krs_vars>>

\* n readings of the clock one after the other, the first at the time of
\* the call
ClockReadings(n) ==
    {times \in [1..n -> ReadsAfter(ekm_now)] :
        /\ n > 0 => times[1] = ekm_now
        /\ \A i \in 1..(n - 1) : times[i] <= times[i + 1]}

\* manager.rotate_all_keys()
RotateAllKeys ==
    /\ ManagerMade
    /\ Len(ekm_keys) + Len(ekm_active_keys) <= MaxKeys
    /\ \E tokens \in [1..Len(ekm_active_keys) -> Tokens],
          times \in ClockReadings(2 * Len(ekm_active_keys)) :
         LET r == rotate_all_keys(TheManager, "manual", tokens, times)
         IN  /\ ManagerBecomes(r.m)
             /\ ekm_out' = r.out
             /\ ekm_now' = IF ekm_active_keys = <<>> THEN ekm_now
                          ELSE times[2 * Len(ekm_active_keys)]
    /\ ekm_call' = ManagerCall("rotate_all_keys", <<>>)
    /\ UNCHANGED <<shamir_vars, krs_vars>>

\* an hour passes between two calls
Tick ==
    /\ ManagerMade
    /\ ekm_now < MaxClock * SecondsPerHour
    /\ ekm_now' = ekm_now + SecondsPerHour
    /\ ekm_call' = NoManagerCall
    /\ ekm_out' = ReturnsNone
    /\ UNCHANGED <<ekm_rotation_hours, ekm_keys, ekm_active_keys,
                   ekm_rotation_log>>
    /\ UNCHANGED <<shamir_vars, krs_vars>>

NextEphemeral ==
    \/ NewManager \/ GenerateKey \/ GetKey \/ RotateKey \/ ZeroizeKey
    \/ CleanupExpiredKeys \/ RotateAllKeys \/ Tick

SpecEphemeral == Init /\ [][NextEphemeral]_vars

\* ------------------------------------------------------------------ claims
IsPrime(p) == p >= 2 /\ \A d \in 2..(p - 1) : p % d # 0

\* the latest call was a successful split_secret
SplitDone == last = "split" /\ split_out.kind = "ok"

\* the latest call was reconstruct_secret on shares of the latest split
ReconstructedFromSplit == last = "reconstruct" /\ split_out.kind = "ok"

\* shares is a list of k different shares
KSubset(shares, k) ==
    /\ Len(shares) = k
    /\ \A a, b \in 1..Len(shares) : a # b => shares[a] # shares[b]

\* the caller passed exactly k different shares of the split, and the
\* length of the secret it split
KSubsetCall ==
    /\ ReconstructedFromSplit
    /\ KSubset(supplied, threshold)
    /\ secret_length = Len(secret)

\* C1 as stated: for 1 <= k <= n and prime p, reconstruct_secret on any k
\* different shares of split_secret(s), with length len(s), returns s.
C1_AnyKSharesReconstruct ==
    (KSubsetCall /\ 1 <= threshold /\ threshold <= total_shares /\ IsPrime(prime))
        => recon_out = Ok(secret)

\* C1 amended: the same, for total_shares <= prime.  (With more shares than
\* residues two indices are congruent modulo p, and a subset holding both
\* has a Lagrange denominator of 0.)
C1_AnyKSharesReconstruct_UpToP ==
    (KSubsetCall /\ 1 <= threshold /\ threshold <= total_shares /\ IsPrime(prime)
        /\ total_shares <= prime)
        => recon_out = Ok(secret)

\* C1 witness: a 2-of-3 split over p = 5 of the two-byte secret 00 03 with a
\* nonzero random coefficient, rebuilt from shares 3 and 1 in that order
C1_Witness ==
    /\ KSubsetCall
    /\ threshold = 2 /\ total_shares = 3 /\ prime = 5
    /\ secret = <<0, 3>> /\ coefficients[2] # 0
    /\ supplied[1].share_id = 3 /\ supplied[2].share_id = 1
    /\ recon_out = Ok(secret)


\* C2: reconstruct_secret on fewer than k shares, whatever they are, raises
\* InsufficientShares and returns nothing.
C2_TooFewSharesRejected ==
    (last = "reconstruct" /\ Len(supplied) < threshold)
        => recon_out = Raise("InsufficientShares")

\* C2 witness: two shares with the same index and out-of-range values passed
\* to a scheme of threshold 3: the count is what is reported
C2_Witness ==
    /\ last = "reconstruct" /\ threshold = 3 /\ Len(supplied) = 2
    /\ supplied[1].share_id = supplied[2].share_id
    /\ supplied[1].share_value = prime /\ supplied[2].share_value < 0
    /\ recon_out = Raise("InsufficientShares")

\* the values at the indices in I of the shares split_secret builds for the
\* field element s with the random draws d
ViewOf(s, d, I) ==
    LET shares == MakeShares(generate_polynomial(s, d), NodeName,
                             total_shares, prime)
    IN  [i \in I |-> shares[i].share_value]

\* the values at the indices in I of the shares the latest split returned
ViewSeen(I) == [i \in I |-> split_out.value[i].share_value]

\* every tuple of values that the latest split shows at the indices in I
\* can be produced, by other draws, from every other secret of the field
SameViewsForAllSecrets(I) ==
    \A s \in 0..(prime - 1) :
        \E d \in RandomDraws(threshold, prime) : ViewOf(s, d, I) = ViewSeen(I)

\* C3 as stated: for 1 <= k <= n and prime p, the value tuples split_secret
\* can produce at fewer than k indices are the same for every secret.  (The
\* reachable splits of a secret are all it can produce, so the sets are
\* equal when each one seen is producible from every secret.)
C3_FewerThanKRevealNothing ==
    (SplitDone /\ 1 <= threshold /\ threshold <= total_shares /\ IsPrime(prime))
        => \A I \in SUBSET (1..total_shares) :
               Cardinality(I) < threshold => SameViewsForAllSecrets(I)

\* C3 amended: the same, for total_shares < prime.  (Index p is 0 modulo p,
\* and the share at it is the secret.)
C3_FewerThanKRevealNothing_BelowP ==
    (SplitDone /\ 1 <= threshold /\ threshold <= total_shares /\ IsPrime(prime)
        /\ total_shares < prime)
        => \A I \in SUBSET (1..total_shares) :
               Cardinality(I) < threshold => SameViewsForAllSecrets(I)

\* C3 witness: a 3-of-3 split over p = 5 of the secret 04 with nonzero
\* random coefficients: shares 1 and 3 together fit every secret
C3_Witness ==
    /\ SplitDone /\ threshold = 3 /\ total_shares = 3 /\ prime = 5
    /\ secret = <<4>> /\ coefficients[2] # 0 /\ coefficients[3] # 0
    /\ SameViewsForAllSecrets({1, 3})

\* C4 as stated: for every scheme the constructor accepts and every index
\* i, the values share i can take are the same for every secret.  (Stated
\* for the schemes with 1 <= k <= n, the ones the constructor is meant to
\* accept.)
C4_SingleShareOpaque ==
    (SplitDone /\ 1 <= threshold /\ threshold <= total_shares)
        => \A i \in 1..total_shares : SameViewsForAllSecrets({i})

\* C4 amended: the same, for 2 <= k <= n < p and prime p.  (With k <= 1
\* the polynomial is the constant secret and every share is the secret.)
C4_SingleShareOpaque_KAtLeast2 ==
    (SplitDone /\ 2 <= threshold /\ threshold <= total_shares
        /\ total_shares < prime /\ IsPrime(prime))
        => \A i \in 1..total_shares : SameViewsForAllSecrets({i})

\* C4 witness: a 2-of-3 split over p = 5 of the secret 02 whose share 2 has
\* the value 0, a value share 2 takes for every secret
C4_Witness ==
    /\ SplitDone /\ threshold = 2 /\ total_shares = 3 /\ prime = 5
    /\ secret = <<2>> /\ split_out.value[2].share_value = 0
    /\ SameViewsForAllSecrets({2})

\* the shares reconstruct_secret uses
Selected == Take(supplied, threshold)

\* C5 as stated: if a share reconstruct_secret uses has an index outside
\* [1, n] or a value outside [0, p), the call fails and returns no secret.
\* (Any failure counts, under whatever name; schemes with 1 <= k only.)
C5_InvalidShareRejected ==
    (/\ last = "reconstruct"
     /\ 1 <= threshold /\ Len(supplied) >= threshold
     /\ \E j \in 1..Len(Selected) : ~verify_share(Selected[j], total_shares, prime))
        => recon_out.kind = "raise"

\* C6 as stated: if two supplied shares carry the same index, the call
\* fails and returns no value.  (Any failure counts, the one of pow on a
\* zero denominator included; schemes with 1 <= k, and at least k shares.)
C6_DuplicateIndexRejected ==
    (/\ last = "reconstruct"
     /\ 1 <= threshold /\ Len(supplied) >= threshold
     /\ \E a, b \in 1..Len(supplied) :
            a # b /\ supplied[a].share_id = supplied[b].share_id)
        => recon_out.kind = "raise"

\* C7: split_secret raises SecretTooLarge exactly when the big-endian
\* integer of the secret is >= p; a smaller secret is split (into n shares,
\* unless the labels are miscounted) and a rejected one yields no share.
C7_SecretTooLargeIff ==
    last = "split"
        => /\ (split_out = Raise("SecretTooLarge")) <=> (BytesToInt(secret) >= prime)
           /\ (BytesToInt(secret) < prime /\ ~(labelled /\ Len(node_ids) # total_shares))
                  => (split_out.kind = "ok" /\ Len(split_out.value) = total_shares)

\* C7 witness: the two-byte secret 00 05 is rejected under p = 5
C7_Witness ==
    /\ last = "split" /\ prime = 5 /\ secret = <<0, 5>>
    /\ split_out = Raise("SecretTooLarge")

\* the set of elements of a sequence
Range(s) == {s[j] : j \in 1..Len(s)}

\* the lists of k different shares of the latest split
KSubsetLists(k) ==
    IF k < 0 THEN {}
    ELSE {[j \in 1..k |-> split_out.value[sel[j]]] :
             sel \in {f \in [1..k -> 1..total_shares] :
                         \A a, b \in 1..k : a # b => f[a] # f[b]}}

\* every other k-subset of the split's shares gives the outcome this call
\* gave
OtherSubsetsAgree ==
    \A other \in KSubsetLists(threshold) :
        Range(other) # Range(supplied)
            => reconstruct_secret(other, secret_length, threshold, prime) = recon_out

\* C8 as stated: two different k-subsets of one split give the same
\* reconstruct_secret output: when the call on one returned bytes, the call
\* on every other returns the same bytes.
C8_SubsetIndependence ==
    (ReconstructedFromSplit /\ KSubset(supplied, threshold) /\ recon_out.kind = "ok")
        => OtherSubsetsAgree

\* C8 amended: the same, for prime p and total_shares <= p.
C8_SubsetIndependence_UpToP ==
    (ReconstructedFromSplit /\ KSubset(supplied, threshold) /\ recon_out.kind = "ok"
        /\ IsPrime(prime) /\ total_shares <= prime)
        => OtherSubsetsAgree

\* C8 witness: a 2-of-3 split over p = 5 of the secret 04 with a nonzero
\* random coefficient returned the secret from shares 1 and 2, and shares
\* {1, 3} and {2, 3} are the other subsets
C8_Witness ==
    /\ ReconstructedFromSplit /\ KSubset(supplied, threshold)
    /\ threshold = 2 /\ total_shares = 3 /\ prime = 5
    /\ secret = <<4>> /\ coefficients[2] # 0 /\ secret_length = 1
    /\ Range(supplied) = {split_out.value[1], split_out.value[2]}
    /\ recon_out = Ok(secret)
    /\ Cardinality({Range(o) : o \in KSubsetLists(threshold)}) = 3

\* C9 as stated: every constructed scheme has 1 <= threshold <= total_shares.
C9_ThresholdInRange ==
    ctor = "ok" => (1 <= threshold /\ threshold <= total_shares)

\* C10 as stated: with more than k shares supplied the outcome is that of
\* the call given only the first k of them.  (Stated for the calls that
\* return bytes.)
C10_FirstKUsed ==
    (last = "reconstruct" /\ Len(supplied) > threshold /\ recon_out.kind = "ok")
        => recon_out = reconstruct_secret(SubSeq(supplied, 1, threshold),
                                          secret_length, threshold, prime)

\* C10 holds of the schemes with threshold >= 0, whatever the outcome: the
\* slice shares[:threshold] is the first k shares only then
C10_FirstKUsed_NonNegative ==
    (last = "reconstruct" /\ Len(supplied) > threshold /\ threshold >= 0)
        => recon_out = reconstruct_secret(SubSeq(supplied, 1, threshold),
                                          secret_length, threshold, prime)

\* the label split_secret gives share i: the caller's, or node_<i>
LabelOf(i) == IF labelled THEN node_ids[i] ELSE NodeName[i]

\* C11: a successful split_secret returns exactly n shares in order; share
\* i has index i, a value in [0, p) and the i-th owner label.
C11_SharesInOrder ==
    (last = "split" /\ split_out.kind = "ok")
        => /\ Len(split_out.value) = total_shares
           /\ \A i \in 1..total_shares :
                /\ split_out.value[i].share_id = i
                /\ split_out.value[i].share_value \in 0..(prime - 1)
                /\ split_out.value[i].node_id = LabelOf(i)

\* C11 witness: a 2-of-3 split over p = 5 with the caller's three labels and
\* a nonzero random coefficient
C11_Witness ==
    /\ SplitDone /\ threshold = 2 /\ total_shares = 3 /\ prime = 5
    /\ labelled /\ coefficients[2] # 0
    /\ split_out.value[3] = SecretShare(3, split_out.value[3].share_value,
                                        "node_asia_pacific")
    /\ split_out.value[1].share_value # split_out.value[3].share_value

\* C12 as stated: split_secret raises InvalidConfiguration whenever labels
\* are supplied and their number is not n (schemes with k >= 1).
C12_WrongLabelCountRejected ==
    (last = "split" /\ labelled /\ Len(node_ids) # total_shares
       /\ 1 <= threshold)
        => split_out = Raise("InvalidConfiguration")

\* C12 amended: split_secret raises InvalidConfiguration, and returns no
\* share, exactly when labels are supplied, their number is not n, and the
\* secret is below p (the test of the secret comes first and reports an
\* over-sized secret as SecretTooLarge whatever the labels).
C12_WrongLabelCountRejected_SecretFits ==
    last = "split"
        => ((split_out = Raise("InvalidConfiguration"))
               <=> (labelled /\ Len(node_ids) # total_shares
                      /\ BytesToInt(secret) < prime))

\* C12 witness: one label too many for n = 3 and a secret that fits
C12_Witness ==
    /\ last = "split" /\ total_shares = 3 /\ prime = 5 /\ threshold = 2
    /\ labelled /\ Len(node_ids) = 4 /\ secret = <<4>>
    /\ split_out = Raise("InvalidConfiguration")

\* C19 as stated: the polynomial of a split has exactly k coefficients, the
\* first the secret's field element, the others in [0, p).
C19_PolynomialShape ==
    (last = "split" /\ split_out.kind = "ok")
        => /\ Len(coefficients) = threshold
           /\ coefficients[1] = BytesToInt(secret)
           /\ \A i \in 2..Len(coefficients) : coefficients[i] \in 0..(prime - 1)

\* C19 holds of the schemes with threshold >= 1; there every tuple of
\* [0, p)^(k-1) is the tail of a polynomial _generate_polynomial can return
C19_PolynomialShape_KAtLeast1 ==
    (last = "split" /\ split_out.kind = "ok" /\ threshold >= 1)
        => /\ Len(coefficients) = threshold
           /\ coefficients[1] = BytesToInt(secret)
           /\ \A i \in 2..Len(coefficients) : coefficients[i] \in 0..(prime - 1)
           /\ \A tail \in [1..(threshold - 1) -> 0..(prime - 1)] :
                \E d \in RandomDraws(threshold, prime) :
                    generate_polynomial(BytesToInt(secret), d)
                        = <<BytesToInt(secret)>> \o tail

RECURSIVE Horner(_, _, _)
\* Horner's rule: c1 + x * (c2 + x * (c3 + ...)) modulo p
Horner(coefs, x, p) ==
    IF Len(coefs) = 0 THEN 0
    ELSE (coefs[1] + x * Horner(SubSeq(coefs, 2, Len(coefs)), x, p)) % p

\* the points at which the evaluations are compared
EvalPoints == 0..(MaxShares + MaxModulus)

\* C20: _evaluate_polynomial returns the value of Horner's rule modulo p,
\* in [0, p), for the polynomial of the split at every point, and the
\* shares hold these values at 1..n.
C20_EvaluationIsHorner ==
    (last = "split" /\ split_out.kind = "ok")
        => /\ \A x \in EvalPoints :
                /\ evaluate_polynomial(coefficients, x, prime)
                     = Horner(coefficients, x, prime)
                /\ evaluate_polynomial(coefficients, x, prime) \in 0..(prime - 1)
           /\ \A i \in 1..total_shares :
                split_out.value[i].share_value = Horner(coefficients, i, prime)

\* C20 witness: the polynomial 4 + 3x + 2x^2 over p = 5, whose value at 3 is
\* 31 mod 5 = 1
C20_Witness ==
    /\ SplitDone /\ threshold = 3 /\ total_shares = 3 /\ prime = 5
    /\ coefficients = <<4, 3, 2>>
    /\ split_out.value[3].share_value = 1
    /\ Horner(coefficients, 3, prime) = 1

\* the failures the specification names
TypedFailures == {"InvalidConfiguration", "SecretTooLarge",
                  "InsufficientShares", "InvalidShare", "DuplicateShareIndex"}

\* the failures of int.to_bytes, line 162
LengthFailures == {"OverflowError", "NegativeLength"}

\* the failure of the specification under which a failure of the code is
\* filed: pow's refusal of a denominator without inverse is the code's
\* form of the duplicate-index failure
FiledUnder(e) == IF e = "NotInvertible" THEN "DuplicateShareIndex" ELSE e

\* the call ended with a result or with a failure filed under allowed
EndsWithin(o, allowed) ==
    /\ o.kind \in {"none", "ok", "raise"}
    /\ o.kind = "raise" => FiledUnder(o.error) \in allowed

\* C13 as stated: every call of split_secret or reconstruct_secret ends with
\* a result or with one of the five failures of the specification (schemes
\* with k >= 1 and a length >= 0).
C13_OnlyTypedFailures ==
    (1 <= threshold /\ secret_length >= 0)
        => /\ EndsWithin(split_out, TypedFailures)
           /\ EndsWithin(recon_out, TypedFailures)

\* the outcomes the code has: a result, a failure filed under the
\* specification's, or a failure of int.to_bytes when secret_length cannot
\* hold the reconstructed integer
C13_OnlyTypedFailures_OrLength ==
    /\ EndsWithin(split_out, TypedFailures \cup LengthFailures)
    /\ EndsWithin(recon_out, TypedFailures \cup LengthFailures)

RECURSIVE DiffProduct(_, _, _)
\* the product of x_i - x_j over the positions j of J
DiffProduct(sel, i, J) ==
    IF J = {} THEN 1
    ELSE LET j == CHOOSE j \in J : TRUE
         IN  (sel[i].share_id - sel[j].share_id) * DiffProduct(sel, i, J \ {j})

\* some Lagrange denominator of the selected shares is 0 modulo p
ZeroDenominator(sel, p) ==
    \E i \in 1..Len(sel) :
        DiffProduct(sel, i, (1..Len(sel)) \ {i}) % p = 0

\* two selected indices are equal or congruent modulo p
CongruentPair(sel, p) ==
    \E i, j \in 1..Len(sel) :
        i # j /\ (sel[i].share_id - sel[j].share_id) % p = 0

\* C17: when a Lagrange denominator of the selected shares is 0 modulo p
\* (two selected indices equal or congruent modulo p), reconstruct_secret
\* raises and returns no secret.
C17_ZeroDenominatorFails ==
    (last = "reconstruct"
       /\ (ZeroDenominator(Selected, prime) \/ CongruentPair(Selected, prime)))
        => /\ recon_out.kind = "raise"
           /\ Len(supplied) >= threshold => recon_out = Raise("NotInvertible")

\* C17 witness: indices 1 and 4, different but congruent modulo 3
C17_Witness ==
    /\ last = "reconstruct" /\ threshold = 2 /\ prime = 3
    /\ Len(supplied) = 2
    /\ supplied[1].share_id = 1 /\ supplied[2].share_id = 4
    /\ recon_out = Raise("NotInvertible")

\* a / b in GF(p)
FieldDiv(a, b, p) == CHOOSE q \in 0..(p - 1) : (q * b) % p = a % p

RECURSIVE BasisAtZero(_, _, _, _)
\* L_i(0): the product over the positions j of J of (0 - x_j) / (x_i - x_j)
BasisAtZero(sel, i, J, p) ==
    IF J = {} THEN 1 % p
    ELSE LET j == CHOOSE j \in J : TRUE
         IN  (FieldDiv(0 - sel[j].share_id,
                       sel[i].share_id - sel[j].share_id, p)
                * BasisAtZero(sel, i, J \ {j}, p)) % p

RECURSIVE LagrangeSum(_, _, _)
\* the sum over the positions of I of value_i * L_i(0), modulo p
LagrangeSum(sel, I, p) ==
    IF I = {} THEN 0
    ELSE LET i == CHOOSE i \in I : TRUE
         IN  (sel[i].share_value * BasisAtZero(sel, i, (1..Len(sel)) \ {i}, p)
                + LagrangeSum(sel, I \ {i}, p)) % p

\* the constant terms of the polynomials of degree < Len(sel) through the
\* points of sel
InterpolantsAtZero(sel, p) ==
    {c[1] : c \in {c \in [1..Len(sel) -> 0..(p - 1)] :
                      \A i \in 1..Len(sel) :
                          Horner(c, sel[i].share_id, p)
                              = sel[i].share_value % p}}

\* k shares are selected, their indices nonzero and pairwise distinct
\* modulo the prime p
DistinctNonzeroSelection ==
    /\ last = "reconstruct" /\ IsPrime(prime)
    /\ Len(Selected) = threshold
    /\ \A i \in 1..Len(Selected) : Selected[i].share_id % prime # 0
    /\ ~CongruentPair(Selected, prime)

\* C18: for k selected shares with indices nonzero and pairwise distinct
\* modulo a prime p, the interpolated integer is the sum of value_i * L_i(0)
\* modulo p, the value at 0 of the one polynomial of degree < k through the
\* points, and lies in [0, p).
C18_InterpolationFormula ==
    DistinctNonzeroSelection
        => LET r == lagrange_interpolation(supplied, threshold, prime)
               v == LagrangeSum(Selected, 1..Len(Selected), prime)
           IN  /\ r = OkInt(v)
               /\ v \in 0..(prime - 1)
               /\ threshold >= 1 => InterpolantsAtZero(Selected, prime) = {v}
               /\ (secret_length >= 0 /\ FitsBytes(v, secret_length))
                     => recon_out = Ok(IntToBytes(v, secret_length))

\* C18 witness: three made-up shares over p = 5 with indices 4, 1, 2, one
\* value outside [0, p), and a nonzero result
C18_Witness ==
    /\ DistinctNonzeroSelection /\ threshold = 3 /\ prime = 5
    /\ supplied[1].share_id = 4 /\ supplied[2].share_id = 1
    /\ supplied[3].share_id = 2 /\ supplied[1].share_value = 5
    /\ supplied[2].share_value = 2
    /\ recon_out.kind = "ok" /\ recon_out.value # <<0>>

\* two split_secret calls with the same arguments both returned shares
BothSplit ==
    last = "split_again" /\ split_out.kind = "ok" /\ again_out.kind = "ok"

\* the share values of a list of shares, in order
ShareValues(shares) == [i \in 1..Len(shares) |-> shares[i].share_value]

\* reconstruct_secret on the whole list returns the secret that was split
RebuildsSecret(shares) ==
    reconstruct_secret(shares, Len(secret), threshold, prime) = Ok(secret)

\* C14 as stated: two split_secret calls with the same secret return shares
\* whose values differ, and each list reconstructs to the secret (for
\* 1 <= k <= n <= p, p prime).
C14_TwoSplitsDiffer ==
    (BothSplit /\ 1 <= threshold /\ threshold <= total_shares
       /\ total_shares <= prime /\ IsPrime(prime))
        => /\ ShareValues(again_out.value) # ShareValues(split_out.value)
           /\ RebuildsSecret(split_out.value)
           /\ RebuildsSecret(again_out.value)

\* C14 amended: for 1 <= k <= n <= p, p prime, the second call draws its
\* coefficients anew, whatever the first drew; the two lists have the same
\* values exactly when the same coefficients were drawn (always, for
\* k = 1), and each list reconstructs to the secret.
C14_TwoSplitsDiffer_WhenDrawsDiffer ==
    (1 <= threshold /\ threshold <= total_shares
       /\ total_shares <= prime /\ IsPrime(prime))
        => /\ SplitDone
                => \A d \in RandomDraws(threshold, prime) :
                      ENABLED (SplitAgain
                                 /\ again_coefficients'
                                      = <<BytesToInt(secret)>> \o d)
           /\ BothSplit
                => /\ (ShareValues(again_out.value) = ShareValues(split_out.value))
                         <=> (again_coefficients = coefficients)
                   /\ RebuildsSecret(split_out.value)
                   /\ RebuildsSecret(again_out.value)

\* C14 witness: two 3-of-3 splits of the secret 04 over p = 5 with different
\* draws, share 1 equal and share 2 different
C14_Witness ==
    /\ BothSplit /\ threshold = 3 /\ total_shares = 3 /\ prime = 5
    /\ secret = <<4>>
    /\ coefficients = <<4, 1, 2>> /\ again_coefficients = <<4, 2, 1>>
    /\ split_out.value[1].share_value = again_out.value[1].share_value
    /\ split_out.value[2].share_value # again_out.value[2].share_value
    /\ RebuildsSecret(again_out.value)

\* the addresses reached from refs through the items of lists
RECURSIVE Reachable(_, _)
Reachable(heap, refs) ==
    LET more == refs \cup UNION {Range(heap[a].items) : a \in refs}
    IN  IF more = refs THEN refs ELSE Reachable(heap, more)

\* the names the caller has: the list split_secret returned and its own list
CallerRoots == {py_held - 1, py_held}

\* the objects the caller held before the first call are as they were
CallerObjectsKept(heap) ==
    /\ Len(heap) >= Len(py_held_heap)
    /\ SubSeq(heap, 1, Len(py_held_heap)) = py_held_heap

CallReturns == py_frame.pc # "none" /\ py_frame'.pc = "none"

\* C15: the calls leave threshold, total_shares and prime as they are; at
\* every statement of reconstruct_secret, and after verify_share, the list
\* object the caller passed and the share objects in it are what they were
\* when the caller made the list; when reconstruct_secret returns, its
\* outcome is that of the method on the shares the caller made the list
\* of, it is the outcome of the call before on the same list, no local of
\* the call is left, and no object the call made is reached from the
\* caller's names.
C15_CallsKeepSchemeAndShares ==
    [][/\ ctor = "ok" => scheme_vars' = scheme_vars
       /\ py_held # 0
            => /\ py_held' = py_held
               /\ CallerObjectsKept(py_heap')
               /\ Deref(py_heap', py_held) = Deref(py_held_heap, py_held)
               /\ CallReturns
                    => /\ recon_out'
                            = reconstruct_secret(Deref(py_held_heap, py_held),
                                                 secret_length, threshold, prime)
                       /\ repeats >= 1 => recon_out' = recon_out
                       /\ py_frame' = NoFrame
                       /\ Reachable(py_heap', CallerRoots)
                            \subseteq 1..Len(py_held_heap)]_vars

\* C15 witness: a list holding share 3, share 1 and share 3 again of a
\* 2-of-3 split, passed to reconstruct_secret MaxRepeats times; each call
\* made a list of its own and the last returned the secret
C15_Witness ==
    /\ py_held # 0 /\ py_frame = NoFrame /\ repeats = MaxRepeats
    /\ threshold = 2 /\ total_shares = 3 /\ prime = 5
    /\ py_heap[py_held].items = <<3, 1, 3>>
    /\ Len(py_heap) = Len(py_held_heap) + MaxRepeats
    /\ secret = <<3>> /\ secret_length = 1
    /\ recon_out = Ok(secret)

\* the outcome of the call of frame f run alone on the scheme
AloneOutcome(f) ==
    IF f.op = "split"
    THEN split_secret(f.secret, FALSE, <<>>, f.draws,
                      threshold, total_shares, prime).out
    ELSE reconstruct_secret(f.arg, f.secret_length, threshold, prime)

\* C16: in every interleaving of split_secret and reconstruct_secret calls
\* of threads sharing one scheme object, a call that has ended has the
\* outcome it has when run alone with its arguments and its draws.
C16_InterleavingsAgreeWithAlone ==
    \A t \in Threads :
        frames[t].pc = "done" => frames[t].out = AloneOutcome(frames[t])

\* C16 witness: two 2-of-3 splits over p = 5 with different secrets and
\* draws, the first ended while the second is inside its share loop
C16_Witness ==
    /\ threshold = 2 /\ total_shares = 3 /\ prime = 5
    /\ frames[1].op = "split" /\ frames[1].pc = "done"
    /\ frames[2].op = "split" /\ frames[2].pc = "s_share" /\ frames[2].i = 2
    /\ frames[1].coefficients = <<1, 3>> /\ frames[2].coefficients = <<0, 4>>
    /\ frames[1].out.kind = "ok" /\ frames[1].out.value[3].share_value = 0

\* b, read as an integer and written back in len(b) bytes, is b
CodecRoundTrip(b) ==
    /\ FitsBytes(BytesToInt(b), Len(b))
    /\ IntToBytes(BytesToInt(b), Len(b)) = b

\* C21: a byte string read as a big-endian integer and written back with
\* its own length comes back unchanged, leading zero bytes and the empty
\* string included; so reconstruct_secret, once it has interpolated the
\* integer of the secret, returns the secret for secret_length = len(secret).
C21_CodecRoundTrip ==
    /\ last # "none" => CodecRoundTrip(secret)
    /\ (ReconstructedFromSplit /\ secret_length = Len(secret)
          /\ lagrange_interpolation(supplied, threshold, prime)
               = OkInt(BytesToInt(secret)))
         => recon_out = Ok(secret)

\* C21 witness: the secret 00 04, with a leading zero byte, split 2-of-2 over
\* p = 5 and returned by reconstruct_secret
C21_Witness ==
    /\ ReconstructedFromSplit /\ threshold = 2 /\ total_shares = 2 /\ prime = 5
    /\ secret = <<0, 4>> /\ secret_length = 2 /\ Len(supplied) = 2
    /\ coefficients[2] = 3
    /\ recon_out = Ok(<<0, 4>>)

\* C22: the bytes reconstruct_secret returns are secret_length bytes whose
\* big-endian integer is the interpolated integer; when secret_length bytes
\* cannot hold that integer the call raises, and when they can the call
\* returns it, padded on the left with zero bytes.
C22_NoTruncatedBytes ==
    (last = "reconstruct"
       /\ lagrange_interpolation(supplied, threshold, prime).kind = "ok")
        => LET v == lagrange_interpolation(supplied, threshold, prime).value
           IN  /\ recon_out.kind = "ok"
                    => /\ Len(recon_out.value) = secret_length
                       /\ \A i \in 1..Len(recon_out.value) :
                              recon_out.value[i] \in 0..255
                       /\ BytesToInt(recon_out.value) = v
               /\ (secret_length >= 0 /\ v >= Pow(256, secret_length))
                    => recon_out.kind = "raise"
               /\ (secret_length >= 0 /\ v < Pow(256, secret_length))
                    => recon_out.kind = "ok"

\* C22 witness: the one-byte secret 04 reconstructed with secret_length 2
\* comes back as 00 04
C22_Witness ==
    /\ ReconstructedFromSplit /\ threshold = 2 /\ prime = 5
    /\ secret = <<4>> /\ secret_length = 2
    /\ recon_out = Ok(<<0, 4>>)

\* the one-to-one maps of 1..n onto itself
Reorderings(n) ==
    {f \in [1..n -> 1..n] : \A a, b \in 1..n : a # b => f[a] # f[b]}

\* the indices of the shares of s are pairwise different
DistinctIds(s) ==
    \A a, b \in 1..Len(s) : a # b => s[a].share_id # s[b].share_id

\* C24: for k shares with pairwise different indices, reconstruct_secret
\* has the same outcome on every permutation of the list.
C24_OrderIndependent ==
    (last = "reconstruct" /\ Len(supplied) = threshold /\ DistinctIds(supplied))
        => \A f \in Reorderings(Len(supplied)) :
              reconstruct_secret([j \in 1..Len(supplied) |-> supplied[f[j]]],
                                 secret_length, threshold, prime)
                  = recon_out

\* C24 witness: three made-up shares with indices 3, 1, 2 and different
\* values over p = 5, reconstructed to a nonzero byte
C24_Witness ==
    /\ last = "reconstruct" /\ threshold = 3 /\ prime = 5
    /\ Len(supplied) = 3 /\ secret_length = 1
    /\ supplied[1].share_id = 3 /\ supplied[2].share_id = 1
    /\ supplied[3].share_id = 2
    /\ supplied[1].share_value = 0 /\ supplied[2].share_value = 1
    /\ supplied[3].share_value = 3
    /\ recon_out.kind = "ok" /\ recon_out.value # <<0>>

\* the list s with the value of the share at position i replaced by v
WithValue(s, i, v) == [s EXCEPT ![i].share_value = v]

\* replacing the value of any one selected share by a different residue
\* modulo p changes what _lagrange_interpolation gives
EveryShareContributes ==
    \A i \in 1..Len(Selected), v \in 0..(prime - 1) :
        v # Selected[i].share_value % prime
            => lagrange_interpolation(WithValue(Selected, i, v),
                                      threshold, prime)
                 # lagrange_interpolation(supplied, threshold, prime)

\* C25 as stated: for k selected shares with indices nonzero and pairwise
\* distinct modulo p, whatever p the constructor accepted, replacing the
\* value of one of them by a different residue modulo p changes the
\* interpolated integer.  (Read for calls that interpolate an integer.)
C25_EveryShareContributes ==
    (/\ last = "reconstruct"
     /\ Len(Selected) = threshold
     /\ \A i \in 1..Len(Selected) : Selected[i].share_id % prime # 0
     /\ ~CongruentPair(Selected, prime)
     /\ lagrange_interpolation(supplied, threshold, prime).kind = "ok")
        => EveryShareContributes

\* C25, amended: for k selected shares with indices nonzero and pairwise
\* distinct modulo a prime p, replacing the value of one of them by a
\* different residue modulo p changes the interpolated integer.
C25_EveryShareContributes_PrimeModulus ==
    DistinctNonzeroSelection => EveryShareContributes

\* C25 witness: three made-up shares over p = 5 with indices 2, 4, 3
C25_Witness ==
    /\ DistinctNonzeroSelection /\ threshold = 3 /\ prime = 5
    /\ supplied[1].share_id = 2 /\ supplied[2].share_id = 4
    /\ supplied[3].share_id = 3
    /\ supplied[3].share_value = 4
    /\ recon_out.kind = "ok"

\* C23: verify_share returns True exactly when the share's index is in
\* [1, total_shares] and its value in [0, prime), and every share a
\* successful split_secret returned passes it.
C23_VerifyShareExact ==
    last = "verify"
        => /\ verify_out
                = Ok(<<verify_arg.share_id \in 1..total_shares
                         /\ verify_arg.share_value \in 0..(prime - 1)>>)
           /\ verify_pos >= 1
                => /\ verify_arg = split_out.value[verify_pos]
                   /\ verify_out = Ok(<<TRUE>>)

\* C23 witness: the made-up share with index n and value p - 1 passes
C23_Witness ==
    /\ last = "verify" /\ verify_pos = 0
    /\ total_shares = 3 /\ prime = 5
    /\ verify_arg = SecretShare(3, 4, "forged")
    /\ verify_out = Ok(<<TRUE>>)

\* the keys some key of S links to
Children(links, S) == UNION {Range(links[p]) : p \in S}

RECURSIVE LinkedFrom(_, _, _, _)
\* the keys of reached and the eligible keys within n links of them, every
\* key on the way eligible
LinkedFrom(links, eligible, reached, n) ==
    IF n = 0 THEN reached
    ELSE LinkedFrom(links, eligible,
                    reached \cup (Children(links, reached) \cap eligible), n - 1)

\* the key and every active key reachable from it through links
ReachableActive(key_id) ==
    {key_id} \cup (LinkedFrom(krs_key_relationships, KeyIds, {key_id},
                              Cardinality(KeyIds))
                     \cap krs_active_keys)

\* the key and every active key reachable from it through links between
\* active keys
ReachableThroughActive(key_id) ==
    LinkedFrom(krs_key_relationships, krs_active_keys, {key_id},
               Cardinality(KeyIds))

\* the step is a revoke_key call that returns the keys of expected, each
\* once, and leaves them revoked; on a key that is not active it returns
\* the empty list and changes nothing
RevokesExactly(expected) ==
    IF krs_call'.key_id \notin krs_active_keys
    THEN /\ krs_out' = <<>>
         /\ UNCHANGED <<krs_active_keys, krs_revoked_keys, krs_key_relationships>>
    ELSE krs_call'.cascade
           => /\ Range(krs_out') = expected
              /\ Len(krs_out') = Cardinality(expected)
              /\ krs_active_keys' = krs_active_keys \ expected
              /\ \A k \in expected : krs_revoked_keys'[k] # NoRecord

\* every key with a link, or linked to, was registered at some time
LinksAmongRegistered ==
    \A k \in KeyIds :
        (krs_key_relationships[k] # <<>>
           \/ k \in Children(krs_key_relationships, KeyIds))
            => (k \in krs_active_keys \/ krs_revoked_keys[k] # NoRecord)

\* C26 as stated (link graphs among registered keys): revoke_key with cascade on an active key returns, each
\* once, the key and every active key reachable from it through links, and
\* these keys are then revoked and not active; on a key that is not active
\* it returns the empty list and changes nothing.
C26_CascadeRevokesReachable ==
    [][(krs_call'.op = "revoke_key" /\ LinksAmongRegistered)
         => RevokesExactly(ReachableActive(krs_call'.key_id))]_vars

\* the cascade of the code: it follows the links of the keys it revokes, so
\* it reaches a key only through keys that were active
C26_CascadeRevokesReachable_ThroughActive ==
    [][krs_call'.op = "revoke_key"
         => RevokesExactly(ReachableThroughActive(krs_call'.key_id))]_vars

\* the keys a revoke_key call has revoked: those with a record
RevokedKeys == {k \in KeyIds : krs_revoked_keys[k] # NoRecord}

\* C27: once revoke_key has revoked a key, verify_key of it is False and
\* is_revoked of it is True in every later state, whatever calls of
\* register_key, link_keys and revoke_key follow: every key a call returns
\* as revoked is in that state, and no step leaves it
C27_RevokedForever ==
    [][\A k \in KeyIds :
         (k \in RevokedKeys \/ k \in Range(krs_out'))
            => (is_revoked(System, k)' /\ ~verify_key(System, k)')]_vars

\* a revoked key was registered again and verify_key still refuses it
C27_Witness ==
    /\ krs_call.op = "register_key"
    /\ \E k \in RevokedKeys :
         k \in krs_active_keys /\ ~verify_key(System, k)

\* a revoke_key call is running
CallInProgress == krs_stack # <<>>

\* C28: cascading revoke_key terminates for every link graph link_keys can
\* build, self-links, duplicate links, diamonds and cycles included: a call
\* in progress always comes to return to its caller
C28_CascadeTerminates == CallInProgress ~> ~CallInProgress

\* the recursion never needs more frames than MaxDepth allows: the loop is
\* never held at a call
C28_DepthSuffices ==
    (krs_stack # <<>> /\ Top.pc = "loop"
       /\ Top.j <= Len(krs_key_relationships[Top.key_id]))
        => Len(krs_stack) < MaxDepth

\* a key of the list links to the key the list begins with
LinkedBack(revoked) ==
    \E a \in Range(revoked) :
        revoked[1] \in Range(krs_key_relationships[a])

\* a cascading call has returned that walked a cycle of links: it revoked
\* two keys or more and a key it revoked links back to the key it was
\* called on
C28_Witness ==
    /\ ~CallInProgress
    /\ krs_call.op = "revoke_key" /\ krs_call.cascade
    /\ Len(krs_out) >= 2
    /\ LinkedBack(krs_out)

\* the step is a call of this method of the manager
ManagerCalled(op) == ekm_call'.op = op

\* the key ids in active_keys
ActiveIds == Range(DictKeys(ekm_active_keys))

\* no token_hex draw repeated a key id: the keys made have ids of their own
AllFresh ==
    \A i, j \in 1..Len(ekm_keys) :
        ekm_keys[i].key_id = ekm_keys[j].key_id => i = j

\* the session id a key id was generated for: a token has no colon, so it
\* is all of the key id before the last colon
SessionOf(key_id) == SubSeq(key_id, 1, Len(key_id) - 1)

\* no key id that rotation_log names as rotated away is in active_keys, so
\* get_key returns None for it
NoRotatedKeyActive ==
    \A i \in 1..Len(ekm_rotation_log) :
        /\ ~DictHas(ekm_active_keys, ekm_rotation_log[i].old_key_id)
        /\ get_key(TheManager, ekm_rotation_log[i].old_key_id, ekm_now).out
             = ReturnsNone

\* the step is a rotate_key call: on an active key the old key leaves
\* active_keys marked rotated and zeroized, one new active key is added
\* whose session id is session_of(old key id), one entry is logged and the
\* new key is returned; on an unknown key id None is returned and nothing
\* changes
RotatesKey(session_of(_)) ==
    LET key_id == ekm_call'.key_id
    IN  IF DictHas(ekm_active_keys, key_id)
        THEN LET old_key == DictGet(ekm_active_keys, key_id)
                 new_key == Len(ekm_keys')
                 new_id == ekm_keys'[new_key].key_id
             IN  /\ Len(ekm_keys') = Len(ekm_keys) + 1
                 /\ ~DictHas(ekm_active_keys', key_id)
                 /\ ekm_keys'[old_key].rotated /\ ekm_keys'[old_key].zeroized
                 /\ new_id \notin ActiveIds
                 /\ ActiveIds' = (ActiveIds \ {key_id}) \cup {new_id}
                 /\ DictGet(ekm_active_keys', new_id) = new_key
                 /\ ~ekm_keys'[new_key].rotated /\ ~ekm_keys'[new_key].zeroized
                 /\ SessionOf(new_id) = session_of(key_id)
                 /\ Len(ekm_rotation_log') = Len(ekm_rotation_log) + 1
                 /\ ekm_rotation_log'[Len(ekm_rotation_log')].old_key_id = key_id
                 /\ ekm_rotation_log'[Len(ekm_rotation_log')].new_key_id = new_id
                 /\ ekm_out' = ReturnsKey(new_key)
        ELSE /\ ekm_out' = ReturnsNone
             /\ UNCHANGED <<ekm_keys, ekm_active_keys, ekm_rotation_log>>

\* C29: rotate_key on an active key removes the old key from active_keys,
\* marked rotated and zeroized, adds exactly one new active key for the
\* same session, appends one entry to rotation_log and returns the new key,
\* and the old key id is never returned by get_key afterwards; on an unknown
\* key id it returns None and changes nothing.  Read for runs in which no
\* key id was drawn twice.
C29_RotateKey ==
    [][AllFresh'
         => /\ ManagerCalled("rotate_key") => RotatesKey(SessionOf)
            /\ NoRotatedKeyActive']_vars

\* what rotate_key does for every session id: the new key is for the
\* session named by the old key id up to its first colon
C29_RotateKey_FirstSegment ==
    [][AllFresh'
         => /\ ManagerCalled("rotate_key") => RotatesKey(SplitFirst)
            /\ NoRotatedKeyActive']_vars

\* no key in active_keys has zeroized = True
NoZeroizedActive ==
    \A i \in 1..Len(ekm_active_keys) :
        ~ekm_keys[ekm_active_keys[i].obj].zeroized

\* the step is a get_key call: a key is returned only if it is the one
\* active_keys holds under the key id and the time is not past its
\* expires_at, and then nothing changes; an active key past its expires_at
\* is marked zeroized and removed, and None is returned
GetsKey ==
    LET key_id == ekm_call'.key_id
        held == DictHas(ekm_active_keys, key_id)
        obj == DictGet(ekm_active_keys, key_id)
    IN  /\ ekm_out'.kind \in {"key", "none"}
        /\ ekm_out'.kind = "key"
             => /\ held /\ ekm_out'.val = obj
                /\ ~(ekm_now > ekm_keys[obj].expires_at)
                /\ UNCHANGED <<ekm_keys, ekm_active_keys, ekm_rotation_log>>
        /\ (held /\ ekm_now > ekm_keys[obj].expires_at)
             => /\ ekm_out' = ReturnsNone
                /\ ekm_keys'[obj].zeroized
                /\ ~DictHas(ekm_active_keys', key_id)

\* C30: get_key returns a key only if it is in active_keys and the current
\* time is not past its expires_at; called on an expired key it marks the
\* key zeroized, removes it from active_keys and returns None; and in every
\* reachable state no key in active_keys has zeroized = True
C30_GetKeyAndNoZeroizedActive ==
    [][/\ ManagerCalled("get_key") => GetsKey
       /\ NoZeroizedActive']_vars

\* get_key was called on a key past its expires_at: it returned None, the
\* key is zeroized without having been rotated and is out of active_keys,
\* while another key is still active
C30_Witness ==
    /\ ekm_call.op = "get_key" /\ ekm_out = ReturnsNone
    /\ ~DictHas(ekm_active_keys, ekm_call.key_id)
    /\ \E i \in 1..Len(ekm_keys) :
         /\ ekm_keys[i].key_id = ekm_call.key_id
         /\ ekm_keys[i].zeroized /\ ~ekm_keys[i].rotated
         /\ ekm_now > ekm_keys[i].expires_at
    /\ ekm_active_keys # <<>>

=============================================================================
